---------------------------- MODULE Spec2Model ----------------------------
(***************************************************************************)
(* MapSync: automatic georeferencing of aerial photographs.                *)
(*                                                                         *)
(* The module models these parts of src:                                   *)
(*   Spec          run_auto_georeferencing with download_reference_image   *)
(*                 and _download_tile (auto_georeferencer.py,              *)
(*                 tile_downloader.py)                                     *)
(*   SpecMatch     the classical auto_match (feature_matcher.py)           *)
(*   SpecGcp       _extract_gcps as a pure function (feature_matcher.py)   *)
(*   SpecMatchers  the classical auto_match and the auto_match of          *)
(*                 vision_matcher.py, one call of either                   *)
(*   SpecConf      the two _compute_confidence functions                   *)
(*   SpecGeoref    run_georeferencing step by step, called directly or by  *)
(*                 the handler of /api/georeference (georeferencer.py,     *)
(*                 app.py)                                                 *)
(*   SpecDim       the output size of _warp_image (georeferencer.py)       *)
(*   SpecWarp      _compute_bounds and _warp_image on the transform        *)
(*                 (a0 + px, b0 - py), with the rounding of doubles        *)
(*   SpecNet       the network calls of _download_tile and of              *)
(*                 _call_claude_vision (vision_matcher.py)                 *)
(*   SpecApp       the handlers georeference, preview_overlay and export   *)
(*                 of app.py, serving several clients at once              *)
(*                                                                         *)
(* Units.  Latitudes and longitudes of bounding boxes are integers in      *)
(* 1/10000 degree.  Sleeps are integers in 1/100 second.  GCP pixel        *)
(* coordinates of the matchers are integers in 1/10 pixel (the code rounds *)
(* to 1 decimal), their latitudes and longitudes integers in 1/1000000     *)
(* degree (the code rounds to 6 decimals).  Confidence scores are          *)
(* fractions num / den.  The GCPs of run_georeferencing have pixel         *)
(* coordinates in PixelUnit pixels and longitudes and latitudes in         *)
(* 1/DegreeUnit degree; the fitted coefficients are exact fractions over a *)
(* common denominator, so that least squares is computed without rounding. *)
(***************************************************************************)
EXTENDS Integers, Sequences, FiniteSets, TLC

VARIABLES
    pc,             \* position of the pipeline: idle, fetch, match, done
    caller,         \* who called download_reference_image: none, auto, direct
    bounds,         \* the bounds argument
    grid,           \* x_min, y_min, x_max, y_max of download_reference_image
    k,              \* tiles of the double loop handled so far
    attempt,        \* loop variable of _download_tile for the current tile
    backoffs,       \* the backoff sleeps of the current _download_tile call
    tiles,          \* the dict tiles: coordinates of the tiles stored
    failures,       \* the counter failures
    requests,       \* requests.get calls issued in this run
    lastTile,       \* the _download_tile call that returned last
    download,       \* outcome of download_reference_image
    matcherCalled,  \* auto_match was invoked by run_auto_georeferencing
    result,         \* what the entry point returned (or raised)
    mIn,            \* classical auto_match: the image and the four passes' output
    mOut,           \* classical auto_match: passes run, chosen result, return value
    gIn,            \* _extract_gcps: its arguments
    gOut,           \* _extract_gcps: the list it returned
    vIn,            \* vision auto_match: environment, images, parsed response
    vOut,           \* vision auto_match: its return value
    cIn,            \* a _compute_confidence call: which function, its arguments
    cOut,           \* a _compute_confidence call: the score returned
    gq,             \* georeferencing: the request or the direct call
    gpc,            \* georeferencing: position of the handler and of the run
    gfit,           \* georeferencing: affine, image size and bounds of the run
    gdisk,          \* georeferencing: the output raster and the bounds sidecar
    glog,           \* georeferencing: the operations carried out, in order
    gres,           \* georeferencing: what was returned
    dIn,            \* output size of _warp_image: transform column and spans
    dOut,           \* output size of _warp_image: out_w and out_h
    wIn,            \* resampling of _warp_image: image size and transform offsets
    wOut,           \* resampling of _warp_image: output size and pixels sampled
    nPc,            \* network calls: which call is under way
    nCalls,         \* network calls: the requests issued, in order
    nRet,           \* network calls: what the caller got
    aMode,          \* app: the mode of the uploaded image (RGB or RGBA)
    aDisk,          \* app: the files of the image id in EXPORT_FOLDER
    aReq,           \* app: the /api/georeference request of each client
    aRuns,          \* app: calls of run_georeferencing started so far
    aLast,          \* app: the run that returned success last
    aServed,        \* app: what /api/preview-overlay served last
    aExported       \* app: what /api/export packaged last

fetchVars == <<pc, caller, bounds, grid, k, attempt, backoffs, tiles, failures,
               requests, lastTile, download, matcherCalled, result>>
matchVars == <<mIn, mOut>>
gcpVars == <<gIn, gOut>>
visionVars == <<vIn, vOut>>
confVars == <<cIn, cOut>>
geoVars == <<gq, gpc, gfit, gdisk, glog, gres>>
dimVars == <<dIn, dOut>>
warpVars == <<wIn, wOut>>
netVars == <<nPc, nCalls, nRet>>
appVars == <<aMode, aDisk, aReq, aRuns, aLast, aServed, aExported>>
vars ==
    <<fetchVars, matchVars, gcpVars, visionVars, confVars, geoVars, dimVars, warpVars,
      netVars, appVars>>

Min(a, b) == IF a < b THEN a ELSE b
Max(a, b) == IF a > b THEN a ELSE b

(***************************************************************************)
(* auto_georeferencer.py and tile_downloader.py                            *)
(***************************************************************************)

\* MAX_SPAN = 0.5 and MIN_SPAN = 0.001 degrees, in 1/10000 degree.
MAX_SPAN == 5000
MIN_SPAN == 10

\* zoom=17, the default of download_reference_image.
ZOOM == 17
\* The limit in "if total_tiles > 400".
MAX_TILES == 400
MAX_RETRIES == 3
\* REQUEST_DELAY = 0.05 s, in 1/100 s.
REQUEST_DELAY == 5

\* n = 2 ** zoom
TileN == 2 ^ ZOOM

\* Bounding boxes of the model: a corner (south, west) and the two spans.
\* The spans cover inverted, empty, below MIN_SPAN, at MIN_SPAN, inside the
\* range, at MAX_SPAN and above MAX_SPAN.  The tile grids the download loop
\* walks through have at most 5 tiles (1x1, 1x2, 2x1, 2x2, 5x1); every other
\* grid of the model is empty or has more than 400 tiles.
Corners == {<<349000, -901000>>, <<-339000, 1512000>>}
SmallSpans == {-110, -10, 0, 5, 10, 30}
LargeSpans == {1000, 5000, 5001}
DirectSpanPairs ==
    (SmallSpans \X SmallSpans) \cup (LargeSpans \X LargeSpans) \cup ({5, 10} \X {110})
SpanPairs ==
    DirectSpanPairs \cup (SmallSpans \X {5001}) \cup ({5001} \X SmallSpans)
BoxOf(c, s) ==
    [north |-> c[1] + s[1], south |-> c[1], east |-> c[2] + s[2], west |-> c[2]]
\* The boxes run_auto_georeferencing is called with.
Boxes == {BoxOf(c, s) : c \in Corners, s \in SpanPairs}
\* The boxes download_reference_image is called with on its own.
DirectBoxes == {BoxOf(c, s) : c \in Corners, s \in DirectSpanPairs}
NoBounds == [north |-> 0, south |-> 0, east |-> 0, west |-> 0]

\* The y term of _lat_lon_to_tile before clamping,
\*   int((1.0 - math.log(math.tan(lat_rad) + 1.0 / math.cos(lat_rad)) / math.pi) / 2.0 * n),
\* at zoom 17, evaluated at the latitudes of Boxes.
MercatorY(lat) ==
    CASE lat = -339110 -> 78673
      [] lat = -339010 -> 78669
      [] lat = -339000 -> 78668
      [] lat = -338995 -> 78668
      [] lat = -338990 -> 78668
      [] lat = -338970 -> 78667
      [] lat = -338000 -> 78625
      [] lat = -334000 -> 78450
      [] lat = -333999 -> 78450
      [] lat = 348890 -> 51966
      [] lat = 348990 -> 51962
      [] lat = 349000 -> 51961
      [] lat = 349005 -> 51961
      [] lat = 349010 -> 51961
      [] lat = 349030 -> 51960
      [] lat = 350000 -> 51917
      [] lat = 354000 -> 51739
      [] lat = 354001 -> 51739

\* int((lon + 180.0) / 360.0 * n): with lon in 1/10000 degree this is
\* floor((lon + 1800000) * 2^17 / 3600000) = floor(v * 1024 / 28125), taken
\* in two parts to stay within 32-bit integers.
MercatorX(lon) ==
    LET v == lon + 1800000
    IN  (v \div 28125) * (TileN \div 128) + ((v % 28125) * (TileN \div 128)) \div 28125

\* _lat_lon_to_tile
LatLonToTile(lat, lon) ==
    [x |-> Max(0, Min(TileN - 1, MercatorX(lon))),
     y |-> Max(0, Min(TileN - 1, MercatorY(lat)))]

\* A mutant of TileGrid: the two latitudes are taken from the wrong corners.
TileGridSwapped(b) ==
    LET nw == LatLonToTile(b.south, b.west)
        se == LatLonToTile(b.north, b.east)
    IN  [x_min |-> nw.x, y_min |-> nw.y, x_max |-> se.x, y_max |-> se.y]

\* x_min, y_min from (north, west); x_max, y_max from (south, east).
TileGrid(b) ==
    LET nw == LatLonToTile(b.north, b.west)
        se == LatLonToTile(b.south, b.east)
    IN  [x_min |-> nw.x, y_min |-> nw.y, x_max |-> se.x, y_max |-> se.y]
NoGrid == [x_min |-> 0, y_min |-> 0, x_max |-> 0, y_max |-> 0]

NumTilesX(g) == g.x_max - g.x_min + 1
NumTilesY(g) == g.y_max - g.y_min + 1
\* A mutant of TotalTiles: the "+ 1" of num_tiles_x is missing.
TotalTilesNoPlusOne(g) == (g.x_max - g.x_min) * NumTilesY(g)

\* total_tiles
TotalTiles(g) == NumTilesX(g) * NumTilesY(g)

\* Iterations of "for ty in range(y_min, y_max + 1): for tx in range(x_min, x_max + 1)".
LoopLen(g) == Max(0, NumTilesX(g)) * Max(0, NumTilesY(g))
\* The (tx, ty) of iteration i, counted from 0.
TileAt(g, i) == <<g.x_min + (i % NumTilesX(g)), g.y_min + (i \div NumTilesX(g))>>

\* A mutant of ValidateBounds: the too-large test is missing.
ValidateBoundsNoMax(b) ==
    LET lat_span == b.north - b.south
        lon_span == b.east - b.west
    IN  IF lat_span <= 0 \/ lon_span <= 0 THEN "invalid"
        ELSE IF lat_span < MIN_SPAN /\ lon_span < MIN_SPAN THEN "too_small"
        ELSE "ok"

\* A mutant of ValidateBounds: a box is too small when either span is.
ValidateBoundsEither(b) ==
    LET lat_span == b.north - b.south
        lon_span == b.east - b.west
    IN  IF lat_span <= 0 \/ lon_span <= 0 THEN "invalid"
        ELSE IF lat_span > MAX_SPAN \/ lon_span > MAX_SPAN THEN "too_large"
        ELSE IF lat_span < MIN_SPAN \/ lon_span < MIN_SPAN THEN "too_small"
        ELSE "ok"

\* The validation of run_auto_georeferencing: "ok", or the error it returns.
ValidateBounds(b) ==
    LET lat_span == b.north - b.south
        lon_span == b.east - b.west
    IN  IF lat_span <= 0 \/ lon_span <= 0 THEN "invalid"
        ELSE IF lat_span > MAX_SPAN \/ lon_span > MAX_SPAN THEN "too_large"
        ELSE IF lat_span < MIN_SPAN /\ lon_span < MIN_SPAN THEN "too_small"
        ELSE "ok"

\* A mutant of TileCountCheck: the limit is tested with >= and 0 tiles pass.
TileCountCheckLax(total) ==
    IF total >= MAX_TILES THEN "too_many_tiles"
    ELSE IF total < 0 THEN "too_small_or_invalid"
    ELSE "ok"

\* The two tests on total_tiles: "ok", or the ValueError raised.
TileCountCheck(total) ==
    IF total > MAX_TILES THEN "too_many_tiles"
    ELSE IF total < 1 THEN "too_small_or_invalid"
    ELSE "ok"

\* What the tile server (or the network) does with one request:
\*   ok        status 200 with a decodable image
\*   badimage  status 200 whose content Image.open cannot decode (it raises)
\*   notfound  status 404
\*   other     any other status
\*   exc       requests.get raises (timeout, connection error)
Responses == {"ok", "badimage", "notfound", "other", "exc"}

\* A mutant of DownloadTileStep: the last attempt is retried once more.
DownloadTileStepExtra(att, resp) ==
    IF resp = "ok" THEN "image"
    ELSE IF resp = "notfound" THEN "none"
    ELSE IF att < MAX_RETRIES THEN "retry"
    ELSE "none"

\* A mutant of DownloadTileStep: a 404 is retried like any other failure.
DownloadTileStepRetry404(att, resp) ==
    IF resp = "ok" THEN "image"
    ELSE IF att < MAX_RETRIES - 1 THEN "retry"
    ELSE "none"

\* One iteration of "for attempt in range(MAX_RETRIES)" in _download_tile:
\* "image" (return the array), "none" (return None) or "retry" (sleep, loop).
DownloadTileStep(att, resp) ==
    IF resp = "ok" THEN "image"
    ELSE IF resp = "notfound" THEN "none"
    ELSE IF att < MAX_RETRIES - 1 THEN "retry"
    ELSE "none"

\* A mutant of Backoff: a constant wait.
BackoffFlat(att) == 50

\* time.sleep(0.5 * (attempt + 1)), in 1/100 s.
Backoff(att) == 50 * (att + 1)

\* A mutant of TooManyFailures: abort at 20% already.
TooManyFailuresAt(f, total) == f * 10 >= total * 2

\* "if failures > total_tiles * 0.2" (for 1 <= total <= 400 the float product
\* is never below the exact one, so the test is f > total / 5).
TooManyFailures(f, total) == f * 10 > total * 2

NoTile == [attempts |-> 0, backoffs |-> <<>>, ret |-> "none", resp |-> "none", delay |-> 0]
NoDownload == [status |-> "none", why |-> "none", tile_count |-> 0, failures |-> 0,
               tiles |-> {}]
NoResult == [status |-> "none", why |-> "none"]

\* What run_auto_georeferencing returns for an exception of download_reference_image.
AutoErrorOfDownload(why) == [status |-> "error", why |-> why]

\* download_reference_image up to the loop: the grid, the count, the two tests.
StartDownload(b, who) ==
    LET g == TileGrid(b)
        chk == TileCountCheck(TotalTiles(g))
    IN  /\ bounds' = b
        /\ caller' = who
        /\ grid' = g
        /\ UNCHANGED <<k, attempt, backoffs, tiles, failures, requests, lastTile,
                       matcherCalled>>
        /\ IF chk = "ok"
           THEN /\ pc' = "fetch"
                /\ download' = [NoDownload EXCEPT !.status = "running",
                                                  !.tile_count = TotalTiles(g)]
                /\ result' = NoResult
           ELSE /\ pc' = "done"
                /\ download' = [NoDownload EXCEPT !.status = "ValueError", !.why = chk,
                                                  !.tile_count = TotalTiles(g)]
                /\ result' = IF who = "auto" THEN AutoErrorOfDownload(chk)
                             ELSE [status |-> "raised", why |-> chk]

\* run_auto_georeferencing(image_id, tiff_path, bounds) up to the tile loop.
RunAutoGeoreferencing(b) ==
    /\ pc = "idle"
    /\ IF ValidateBounds(b) = "ok"
       THEN StartDownload(b, "auto")
       ELSE /\ pc' = "done"
            /\ bounds' = b
            /\ caller' = "auto"
            /\ result' = [status |-> "error", why |-> ValidateBounds(b)]
            /\ UNCHANGED <<grid, k, attempt, backoffs, tiles, failures, requests,
                           lastTile, download, matcherCalled>>
    /\ UNCHANGED <<matchVars, gcpVars, visionVars, confVars, geoVars, dimVars,
                   warpVars, netVars, appVars>>

\* download_reference_image(bounds) called on its own.
DirectDownload(b) ==
    /\ pc = "idle"
    /\ StartDownload(b, "direct")
    /\ UNCHANGED <<matchVars, gcpVars, visionVars, confVars, geoVars, dimVars,
                   warpVars, netVars, appVars>>

\* One requests.get of _download_tile for the current tile, and what follows
\* it: the return to the tile loop (store or count, sleep REQUEST_DELAY, next
\* tile) or the backoff before the next attempt.
TileRequest(resp) ==
    /\ pc = "fetch"
    /\ k < LoopLen(grid)
    /\ requests' = requests + 1
    /\ LET step == DownloadTileStep(attempt, resp)
       IN  IF step = "retry"
           THEN /\ attempt' = attempt + 1
                /\ backoffs' = Append(backoffs, Backoff(attempt))
                /\ UNCHANGED <<k, tiles, failures, lastTile>>
           ELSE /\ attempt' = 0
                /\ backoffs' = <<>>
                /\ k' = k + 1
                /\ lastTile' = [attempts |-> attempt + 1, backoffs |-> backoffs,
                                ret |-> step, resp |-> resp, delay |-> REQUEST_DELAY]
                /\ IF step = "image"
                   THEN /\ tiles' = tiles \cup {TileAt(grid, k)}
                        /\ UNCHANGED failures
                   ELSE /\ failures' = failures + 1
                        /\ UNCHANGED tiles
    /\ UNCHANGED <<pc, caller, bounds, grid, download, matcherCalled, result>>
    /\ UNCHANGED <<matchVars, gcpVars, visionVars, confVars, geoVars, dimVars,
                   warpVars, netVars, appVars>>

\* download_reference_image after the loop: the failure test, the mosaic, the
\* return; and run_auto_georeferencing's handling of what it raised.
FinishDownload ==
    /\ pc = "fetch"
    /\ k = LoopLen(grid)
    /\ LET total == download.tile_count
           why == IF TooManyFailures(failures, total) THEN "tiles_failed"
                  ELSE IF NumTilesX(grid) < 0 \/ NumTilesY(grid) < 0
                       THEN "negative_dimensions"   \* np.zeros raises ValueError
                       ELSE "ok"
       IN  /\ download' =
                 [download EXCEPT
                    !.status = CASE why = "tiles_failed" -> "RuntimeError"
                                 [] why = "negative_dimensions" -> "ValueError"
                                 [] OTHER -> "returned",
                    !.why = why,
                    !.failures = IF why = "ok" THEN failures ELSE 0,
                    !.tiles = IF why = "ok" THEN tiles ELSE {}]
           /\ IF why = "ok"
              THEN IF caller = "auto"
                   THEN pc' = "match" /\ result' = result
                   ELSE pc' = "done" /\ result' = [status |-> "success", why |-> "mosaic"]
              ELSE /\ pc' = "done"
                   /\ result' = IF caller = "auto" THEN AutoErrorOfDownload(why)
                                ELSE [status |-> "raised", why |-> why]
    /\ UNCHANGED <<caller, bounds, grid, k, attempt, backoffs, tiles, failures,
                   requests, lastTile, matcherCalled>>
    /\ UNCHANGED <<matchVars, gcpVars, visionVars, confVars, geoVars, dimVars,
                   warpVars, netVars, appVars>>

\* What the matcher that run_auto_georeferencing is wired to does: it raises,
\* returns a dict with 'error', or returns gcps.
MatcherOutcomes == {"raise", "error", "gcps"}

\* Step 2 of run_auto_georeferencing: the call of auto_match and the return.
CallMatcher(o) ==
    /\ pc = "match"
    /\ matcherCalled' = TRUE
    /\ pc' = "done"
    /\ result' = CASE o = "raise" -> [status |-> "error", why |-> "matching_failed"]
                   [] o = "error" -> [status |-> "error", why |-> "matcher_error"]
                   [] OTHER -> [status |-> "success", why |-> "gcps"]
    /\ UNCHANGED <<caller, bounds, grid, k, attempt, backoffs, tiles, failures,
                   requests, lastTile, download>>
    /\ UNCHANGED <<matchVars, gcpVars, visionVars, confVars, geoVars, dimVars,
                   warpVars, netVars, appVars>>

(***************************************************************************)
(* feature_matcher.py                                                      *)
(***************************************************************************)

MAX_DIM == 4000
MIN_INLIERS == 10
GRID_SIZE == 5
\* "if len(gcps) < 5"
MIN_GCPS == 5
\* float('inf'): above every descriptor distance of the model.
Inf == 1000000

\* round() and cvRound of a / b for a >= 0, b > 0: to the nearest integer,
\* halves to the even one.
RoundDiv(a, b) ==
    LET q == a \div b
        r == a % b
    IN  IF 2 * r > b THEN q + 1
        ELSE IF 2 * r < b THEN q
        ELSE IF q % 2 = 0 THEN q ELSE q + 1

\* _load_tiff for a readable W x H image: the shape of the grayscale array
\* handed on, and downsample_ratio = 1.0 / scale as the fraction num / den.
LoadTiff(W, H) ==
    LET m == Max(H, W)
    IN  IF m > MAX_DIM
        THEN [h |-> RoundDiv(H * MAX_DIM, m), w |-> RoundDiv(W * MAX_DIM, m),
              num |-> m, den |-> MAX_DIM]
        ELSE [h |-> H, w |-> W, num |-> 1, den |-> 1]

\* A mutant of CellIndex: the "min(..., GRID_SIZE - 1)" is missing.
CellIndexNoClamp(v, extent) == (v * GRID_SIZE) \div extent

\* min(int(v / (extent / GRID_SIZE)), GRID_SIZE - 1) for v >= 0, which is
\* floor(v * GRID_SIZE / extent) below the clamp.  The points of the model
\* keep clear of the cell borders of an extent that GRID_SIZE does not divide,
\* where the float quotient could fall on the other side.
CellIndex(v, extent) == Min((v * GRID_SIZE) \div extent, GRID_SIZE - 1)

\* "distances[i] if i < len(distances) else float('inf')", i counted from 1.
DistanceAt(distances, i) == IF i <= Len(distances) THEN distances[i] ELSE Inf

\* The position of cell c among the keys of the dict grid, 0 if absent.
GridPos(g, c) ==
    IF \E j \in 1..Len(g) : g[j].cell = c
    THEN CHOOSE j \in 1..Len(g) : g[j].cell = c
    ELSE 0

\* A mutant of GridPut: every correspondence gets an entry of its own.
GridPutAll(g, c, i, dist) == Append(g, [cell |-> c, idx |-> i, dist |-> dist])

\* A mutant of GridPut: a correspondence of the same distance replaces the
\* entry of its cell.
GridPutTieLast(g, c, i, dist) ==
    LET j == GridPos(g, c)
    IN  IF j = 0 THEN Append(g, [cell |-> c, idx |-> i, dist |-> dist])
        ELSE IF dist <= g[j].dist THEN [g EXCEPT ![j] = [cell |-> c, idx |-> i, dist |-> dist]]
        ELSE g

\* "if (row, col) not in grid or dist < grid[(row, col)][1]:
\*      grid[(row, col)] = (i, dist)"; a dict keeps a key where it was first
\* inserted.
GridPut(g, c, i, dist) ==
    LET j == GridPos(g, c)
    IN  IF j = 0 THEN Append(g, [cell |-> c, idx |-> i, dist |-> dist])
        ELSE IF dist < g[j].dist THEN [g EXCEPT ![j] = [cell |-> c, idx |-> i, dist |-> dist]]
        ELSE g

\* The first loop of _extract_gcps from correspondence i on.
RECURSIVE BuildGrid(_, _, _, _, _)
BuildGrid(src_pts, distances, shape, i, g) ==
    IF i > Len(src_pts) THEN g
    ELSE BuildGrid(src_pts, distances, shape, i + 1,
                   GridPut(g,
                           <<CellIndex(src_pts[i].y, shape.h), CellIndex(src_pts[i].x, shape.w)>>,
                           i, DistanceAt(distances, i)))

\* The dict a GCP is: pixel_x, pixel_y in 1/10 pixel of the original image,
\* lat, lon in 1/1000000 degree.
MakeGcp(aerial_pt, ref_pt, ratio, geo) ==
    [pixel_x |-> RoundDiv(10 * aerial_pt.x * ratio.num, ratio.den),
     pixel_y |-> RoundDiv(10 * aerial_pt.y * ratio.num, ratio.den),
     lat |-> geo.origin_lat + ref_pt.y * geo.px_size_lat,
     lon |-> geo.origin_lon + ref_pt.x * geo.px_size_lon]

\* _extract_gcps(src_pts, dst_pts, distances, img_shape, downsample_ratio, geo_transform)
ExtractGcps(src_pts, dst_pts, distances, shape, ratio, geo) ==
    LET g == BuildGrid(src_pts, distances, shape, 1, <<>>)
    IN  [j \in 1..Len(g) |-> MakeGcp(src_pts[g[j].idx], dst_pts[g[j].idx], ratio, geo)]

\* max(0.0, min(1.0, confidence)) of _compute_confidence, rounded to 2
\* decimals as auto_match returns it, in 1/100.  With a = min(inlier_count,
\* 100), T = total_matches, L = len(distances), S = sum(distances) and
\* g = len(gcps) the weighted sum is
\*   (6aTL + 400 inlier_count L + 24gTL + 2T max(0, 200L - S)) / (2000TL),
\* a term with T = 0 or L = 0 being 0.
RECURSIVE SumSeq(_)
SumSeq(q) == IF q = <<>> THEN 0 ELSE Head(q) + SumSeq(Tail(q))
ComputeConfidence(inlier_count, total_matches, distances, ngcps) ==
    LET a == Min(inlier_count, 100)
        T == IF total_matches > 0 THEN total_matches ELSE 1
        L == IF distances # <<>> THEN Len(distances) ELSE 1
        ratio_num == IF total_matches > 0 THEN inlier_count ELSE 0
        dist_num == IF distances # <<>>
                    THEN Max(0, 200 * L - SumSeq(distances)) ELSE 0
        n == 6 * a * T * L + 400 * ratio_num * L + 24 * ngcps * T * L + 2 * T * dist_num
        d == 2000 * T * L
    IN  IF n > d THEN 100 ELSE RoundDiv(100 * n, d)

\* The reference geo_transform of the model (origin_lon, origin_lat,
\* px_size_lon, px_size_lat), in 1/1000000 degree and 1/1000000 degree per pixel.
GeoTransform ==
    [origin_lon |-> -90101624, origin_lat |-> 34901764, px_size_lon |-> 11, px_size_lat |-> -9]

\* The source images of the model, as <<width, height>>: one below MAX_DIM,
\* one that _load_tiff halves, to 4000 x 3002 (cv2.resize rounds 3001.5 up).
ImageSizes == {<<1000, 800>>, <<8000, 6003>>}

\* What a detection pass can come back with, as <<inlier count, layout>>:
\* no inlier, fewer than MIN_INLIERS, exactly MIN_INLIERS, more; the inliers
\* spread one per grid cell, or packed into the bottom right cell from the
\* last pixel (w - 1, h - 1) on, the largest coordinates a keypoint can have.
ExtraInliers == 2
InlierCounts == {4, MIN_INLIERS - 1, MIN_INLIERS, MIN_INLIERS + ExtraInliers}
PassOutputs == {<<0, "none">>} \cup (InlierCounts \X {"spread", "cluster"})

\* Inlier i (from 0) of a pass in the downsampled source image.
InlierSrc(layout, i, shape) ==
    IF layout = "spread"
    THEN [x |-> ((2 * (i % GRID_SIZE) + 1) * shape.w) \div (2 * GRID_SIZE),
          y |-> ((2 * ((i \div GRID_SIZE) % GRID_SIZE) + 1) * shape.h) \div (2 * GRID_SIZE)]
    ELSE [x |-> shape.w - 1 - 3 * i, y |-> shape.h - 1 - 2 * i]
\* Its match in the reference image, and its descriptor distance.
InlierDst(p, i) == [x |-> p.x \div 4 + i, y |-> p.y \div 4 + 2]
InlierDist(i) == 30 + 10 * ((3 * i) % 4)

\* The dict of _ransac_filter (or _empty_result) for a pass output.
PassResult(o, shape) ==
    [inlier_count |-> o[1],
     total_matches |-> IF o[1] = 0 THEN 3 ELSE o[1] + 6,
     src_inlier_pts |-> [i \in 1..o[1] |-> InlierSrc(o[2], i - 1, shape)],
     dst_inlier_pts |-> [i \in 1..o[1] |-> InlierDst(InlierSrc(o[2], i - 1, shape), i - 1)],
     inlier_distances |-> [i \in 1..o[1] |-> InlierDist(i - 1)]]

\* A mutant of Better: the later pass always replaces the result.
BetterLast(cur, new) == new

\* "if new['inlier_count'] > result['inlier_count']: result = new"
Better(cur, new) == IF new.inlier_count > cur.inlier_count THEN new ELSE cur

\* A mutant of NeedsFallback: the fallback also runs at exactly MIN_INLIERS.
NeedsFallbackAt(r) == r.inlier_count <= MIN_INLIERS

\* "if result['inlier_count'] < MIN_INLIERS" before the SIFT passes.
NeedsFallback(r) == r.inlier_count < MIN_INLIERS

\* A mutant of Insufficient: one inlier less is accepted.
InsufficientLax(r) == r.inlier_count < MIN_INLIERS - 1

\* "if result['inlier_count'] < MIN_INLIERS" before the GCP extraction.
Insufficient(r) == r.inlier_count < MIN_INLIERS

\* Stages 4 to 6 of auto_match: the passes run and the result kept.
RunPasses(in, shape) ==
    LET orb == Better(PassResult(in.orb, shape), PassResult(in.orb_edges, shape))
    IN  IF NeedsFallback(orb)
        THEN [ran |-> <<"orb", "orb_edges", "sift", "sift_edges">>,
              res |-> Better(Better(orb, PassResult(in.sift, shape)),
                             PassResult(in.sift_edges, shape))]
        ELSE [ran |-> <<"orb", "orb_edges">>, res |-> orb]

\* A mutant of TooFewGcps: a list of 4 is accepted.
TooFewGcpsLax(gcps) == Len(gcps) < MIN_GCPS - 1

\* "if len(gcps) < 5" of feature_matcher.py and "if len(gcps) < MIN_GCPS",
\* MIN_GCPS = 5, of vision_matcher.py.
TooFewGcps(gcps) == Len(gcps) < MIN_GCPS

NoMatchOut ==
    [status |-> "none", why |-> "none", found |-> 0, match_count |-> 0, gcps |-> <<>>,
     confidence |-> 0, ran |-> <<>>]

\* auto_match(tiff_path, reference_image, reference_geo_transform) of
\* feature_matcher.py, for the input in.
AutoMatch(in) ==
    IF ~in.loaded
    THEN [NoMatchOut EXCEPT !.status = "error", !.why = "could_not_load"]
    ELSE
      LET img == LoadTiff(in.size[1], in.size[2])
          shape == [h |-> img.h, w |-> img.w]
          p == RunPasses(in, shape)
          r == p.res
          gcps == ExtractGcps(r.src_inlier_pts, r.dst_inlier_pts, r.inlier_distances,
                              shape, [num |-> img.num, den |-> img.den], GeoTransform)
      IN  IF Insufficient(r)
          THEN [NoMatchOut EXCEPT !.status = "error", !.why = "insufficient_matches",
                                  !.found = r.inlier_count,
                                  !.match_count = r.inlier_count, !.ran = p.ran]
          ELSE IF TooFewGcps(gcps)
          THEN [NoMatchOut EXCEPT !.status = "error", !.why = "too_few_gcps",
                                  !.found = Len(gcps),
                                  !.match_count = r.inlier_count, !.ran = p.ran]
          ELSE [NoMatchOut EXCEPT !.status = "ok", !.gcps = gcps,
                                  !.confidence = ComputeConfidence(r.inlier_count,
                                        r.total_matches, r.inlier_distances, Len(gcps)),
                                  !.match_count = r.inlier_count, !.ran = p.ran]

MatchInputs ==
    [loaded : BOOLEAN, size : ImageSizes, orb : PassOutputs, orb_edges : PassOutputs,
     sift : PassOutputs, sift_edges : PassOutputs]
NoMatchIn ==
    [loaded |-> FALSE, size |-> <<1000, 800>>, orb |-> <<0, "none">>,
     orb_edges |-> <<0, "none">>, sift |-> <<0, "none">>, sift_edges |-> <<0, "none">>]

\* One call of the classical auto_match.
AutoMatchCall ==
    /\ mOut.status = "none"
    /\ mOut' = AutoMatch(mIn)
    /\ UNCHANGED <<mIn, fetchVars, gcpVars, visionVars, confVars, geoVars,
                   dimVars, warpVars, netVars, appVars>>

(***************************************************************************)
(* _extract_gcps on its own                                                *)
(***************************************************************************)

\* The longest list of correspondences handed to _extract_gcps.
MaxPts == 3

\* The image of these calls is 50 wide and 100 high (cells of 10 x 20).
\* Source points: image corners and edges, and both sides of a cell border.
GcpShape == [h |-> 100, w |-> 50]
GcpPoints ==
    {[x |-> 0, y |-> 0], [x |-> 9, y |-> 19], [x |-> 10, y |-> 20], [x |-> 49, y |-> 99],
     [x |-> 50, y |-> 100], [x |-> 50, y |-> 0]}
GcpDistances == {3, 7}
GcpRatios == {[num |-> 1, den |-> 1], [num |-> 2, den |-> 1]}

SeqsUpTo(S, n) == UNION {[1..m -> S] : m \in 0..n}

\* The arguments of a call: distances has an entry for every correspondence,
\* or lacks the last one.
GcpInputs ==
    {[src_pts |-> ps, distances |-> ds, ratio |-> r] :
        ps \in SeqsUpTo(GcpPoints, MaxPts), ds \in SeqsUpTo(GcpDistances, MaxPts),
        r \in GcpRatios}
GcpInputOk(in) ==
    Len(in.distances) \in {Len(in.src_pts), Max(0, Len(in.src_pts) - 1)}
\* dst_pts of a call: the reference pixel matched to each source point.
GcpDst(src_pts) == [i \in 1..Len(src_pts) |-> InlierDst(src_pts[i], i)]
NoGcpIn == [src_pts |-> <<>>, distances |-> <<>>, ratio |-> [num |-> 1, den |-> 1]]
NoGcpOut == [done |-> FALSE, gcps |-> <<>>]

\* One call of _extract_gcps.
ExtractGcpsCall ==
    /\ ~gOut.done
    /\ gOut' = [done |-> TRUE,
                gcps |-> ExtractGcps(gIn.src_pts, GcpDst(gIn.src_pts), gIn.distances,
                                     GcpShape, gIn.ratio, GeoTransform)]
    /\ UNCHANGED <<gIn, fetchVars, matchVars, visionVars, confVars, geoVars,
                   dimVars, warpVars, netVars, appVars>>

(***************************************************************************)
(* vision_matcher.py                                                       *)
(***************************************************************************)

\* MAX_DIM = 2000 of vision_matcher.py (feature_matcher.py has its own).
VISION_MAX_DIM == 2000
TARGET_GCPS == 12

\* round(v, n) of a / b for any sign of a, b > 0.
RoundDivS(a, b) == IF a >= 0 THEN RoundDiv(a, b) ELSE -RoundDiv(-a, b)

\* A mutant of VisionDownsample: the new size is rounded, not truncated.
VisionDownsampleRound(W, H) ==
    LET m == Max(W, H)
    IN  IF m > VISION_MAX_DIM
        THEN [w |-> RoundDiv(W * VISION_MAX_DIM, m), h |-> RoundDiv(H * VISION_MAX_DIM, m),
              num |-> m, den |-> VISION_MAX_DIM]
        ELSE [w |-> W, h |-> H, num |-> 1, den |-> 1]

\* "if max(w, h) > MAX_DIM: scale = MAX_DIM / max(w, h); new_w = int(w * scale);
\*  new_h = int(h * scale); return img, 1.0 / scale", else the image and 1.0:
\* the size of the image handed on, and the ratio as the fraction num / den.
VisionDownsample(W, H) ==
    LET m == Max(W, H)
    IN  IF m > VISION_MAX_DIM
        THEN [w |-> (W * VISION_MAX_DIM) \div m, h |-> (H * VISION_MAX_DIM) \div m,
              num |-> m, den |-> VISION_MAX_DIM]
        ELSE [w |-> W, h |-> H, num |-> 1, den |-> 1]
\* _prepare_aerial for a readable W x H TIFF.
PrepareAerial(W, H) == VisionDownsample(W, H)
\* _prepare_reference for a W x H mosaic.
PrepareReference(W, H) == VisionDownsample(W, H)

\* The mosaic handed to the vision matcher: 10 x 5 tiles of 256 pixels.
RefSize == <<2560, 1280>>

\* The matches a parsed response can hold, as <<confidence tier, position>>:
\*   spread         inside both images, match i in grid cell i of the aerial
\*   edge           on the far corner of both images (aerial_x = aw, ...)
\*   out_aerial     aerial_x one pixel beyond the aerial image
\*   out_reference  satellite_y one pixel above the reference image
VisionKinds ==
    {<<"high", "spread">>, <<"medium", "edge">>, <<"low", "spread">>,
     <<"high", "out_aerial">>, <<"medium", "out_reference">>}

\* Entry i (from 1) of valid_matches for a kind, in an aerial image a and a
\* reference image r: spread over the images, on the bottom edge i - 1 pixels
\* from the last corner (w, h), or just outside one of the images.
VisionMatch(kind, i, a, r) ==
    LET p == InlierSrc("spread", i - 1, a)
        q == InlierDst(p, i)
    IN  CASE kind[2] = "spread" ->
               [aerial_x |-> p.x, aerial_y |-> p.y, satellite_x |-> q.x,
                satellite_y |-> q.y, confidence |-> kind[1]]
          [] kind[2] = "edge" ->
               [aerial_x |-> a.w - (i - 1), aerial_y |-> a.h, satellite_x |-> r.w - (i - 1),
                satellite_y |-> r.h, confidence |-> kind[1]]
          [] kind[2] = "out_aerial" ->
               [aerial_x |-> a.w + 1, aerial_y |-> p.y, satellite_x |-> q.x,
                satellite_y |-> q.y, confidence |-> kind[1]]
          [] kind[2] = "out_reference" ->
               [aerial_x |-> p.x, aerial_y |-> p.y, satellite_x |-> q.x,
                satellite_y |-> -1, confidence |-> kind[1]]

\* A mutant of VisionKeep: the test on the confidence tier is missing.
VisionKeepLow(m, a, r) ==
    /\ 0 <= m.aerial_x /\ m.aerial_x <= a.w /\ 0 <= m.aerial_y /\ m.aerial_y <= a.h
    /\ 0 <= m.satellite_x /\ m.satellite_x <= r.w
    /\ 0 <= m.satellite_y /\ m.satellite_y <= r.h

\* The three "continue" tests of the loop over matches: a match passes when
\* its tier is not 'low' and its coordinates lie within both images.
VisionKeep(m, a, r) ==
    /\ m.confidence # "low"
    /\ 0 <= m.aerial_x /\ m.aerial_x <= a.w /\ 0 <= m.aerial_y /\ m.aerial_y <= a.h
    /\ 0 <= m.satellite_x /\ m.satellite_x <= r.w
    /\ 0 <= m.satellite_y /\ m.satellite_y <= r.h

\* The dict appended for a match that passes: the aerial pixel scaled by
\* aerial_ratio, the satellite pixel converted with the adjusted pixel sizes
\* (px_size * ref_ratio); units as in MakeGcp.
VisionMakeGcp(m, a, r, geo) ==
    [pixel_x |-> RoundDiv(10 * m.aerial_x * a.num, a.den),
     pixel_y |-> RoundDiv(10 * m.aerial_y * a.num, a.den),
     lat |-> geo.origin_lat + RoundDivS(m.satellite_y * geo.px_size_lat * r.num, r.den),
     lon |-> geo.origin_lon + RoundDivS(m.satellite_x * geo.px_size_lon * r.num, r.den)]

\* Stages 7-8 of auto_match: the list gcps built from the matches.
RECURSIVE VisionGcps(_, _, _, _)
VisionGcps(matches, a, r, geo) ==
    IF matches = <<>> THEN <<>>
    ELSE IF VisionKeep(Head(matches), a, r)
         THEN <<VisionMakeGcp(Head(matches), a, r, geo)>>
                  \o VisionGcps(Tail(matches), a, r, geo)
         ELSE VisionGcps(Tail(matches), a, r, geo)

\* A mutant of Clamp01: no clamping.
ClampNone(num, den) == num

\* max(0.0, min(1.0, v)) for v = num / den, den > 0: the numerator of the result.
Clamp01(num, den) == Max(0, Min(den, num))

\* The set quadrants of _compute_confidence: cx, cy are the midpoints between
\* the smallest and the largest coordinate.
VisionQuadrants(matches) ==
    LET I == 1..Len(matches)
        xs == {matches[i].aerial_x : i \in I}
        ys == {matches[i].aerial_y : i \in I}
        min_x == CHOOSE v \in xs : \A u \in xs : v <= u
        max_x == CHOOSE v \in xs : \A u \in xs : v >= u
        min_y == CHOOSE v \in ys : \A u \in ys : v <= u
        max_y == CHOOSE v \in ys : \A u \in ys : v >= u
    IN  {<<IF 2 * matches[i].aerial_x < min_x + max_x THEN 0 ELSE 1,
           IF 2 * matches[i].aerial_y < min_y + max_y THEN 0 ELSE 1>> : i \in I}

\* _compute_confidence(matches, claude_confidence) of vision_matcher.py, with
\* claude_confidence in 1/100, as the fraction <<num, den>>.  With
\* n = len(matches) the weighted sum
\*   0.25 min(n / 12, 1) + 0.20 (high + 0.5 med) / n + 0.25 dist_score + 0.30 claude_score
\* has the denominator 6000 n.
VisionConfidenceExact(matches, claude_confidence) ==
    IF matches = <<>> THEN <<0, 1>>
    ELSE
      LET n == Len(matches)
          high == Cardinality({i \in 1..n : matches[i].confidence = "high"})
          med == Cardinality({i \in 1..n : matches[i].confidence = "medium"})
          \* dist_score in quarters
          dist4 == IF n >= 2 THEN Cardinality(VisionQuadrants(matches)) ELSE 1
          claude_score == Clamp01(claude_confidence, 100)
          num == 125 * n * Min(n, TARGET_GCPS) + 600 * (2 * high + med)
                   + 375 * n * dist4 + 18 * n * claude_score
      IN  <<Clamp01(num, 6000 * n), 6000 * n>>

\* round(confidence, 2) as auto_match returns it, in 1/100.
VisionConfidence(matches, claude_confidence) ==
    LET c == VisionConfidenceExact(matches, claude_confidence)
    IN  RoundDivS(100 * c[1], c[2])

NoVisionOut ==
    [status |-> "none", why |-> "none", found |-> 0, match_count |-> 0, gcps |-> <<>>,
     confidence |-> 0]

\* auto_match(tiff_path, reference_image, reference_geo_transform) of
\* vision_matcher.py, for the input in: how far the call gets (in.stage) and
\* what _parse_vision_response handed back.
VisionAutoMatch(in) ==
    CASE in.stage = "no_key" -> [NoVisionOut EXCEPT !.status = "error", !.why = "no_api_key"]
      [] in.stage = "no_image" ->
             [NoVisionOut EXCEPT !.status = "error", !.why = "could_not_load"]
      [] in.stage = "api_raise" ->
             [NoVisionOut EXCEPT !.status = "error", !.why = "api_call_failed"]
      [] in.stage = "parse_error" ->
             [NoVisionOut EXCEPT !.status = "error", !.why = "parse_failed"]
      [] OTHER ->
           LET a == PrepareAerial(in.size[1], in.size[2])
               r == PrepareReference(RefSize[1], RefSize[2])
               matches == [i \in 1..Len(in.kinds) |-> VisionMatch(in.kinds[i], i, a, r)]
               gcps == VisionGcps(matches, a, r, GeoTransform)
           IN  IF matches = <<>>
               THEN [NoVisionOut EXCEPT !.status = "error", !.why = "no_valid_matches"]
               ELSE IF TooFewGcps(gcps)
               THEN [NoVisionOut EXCEPT !.status = "error", !.why = "too_few_gcps",
                                        !.found = Len(gcps), !.match_count = Len(gcps)]
               ELSE [NoVisionOut EXCEPT
                        !.status = "ok", !.gcps = gcps, !.match_count = Len(gcps),
                        !.confidence = VisionConfidence(matches, in.overall_confidence)]

\* The longest list of matches in a parsed response, and the number of its
\* leading matches that are of any kind: the matches after them are of the
\* tier 'high' and spread over both images.
MaxMatches == 6
MaxVaried == 3
VisionKindLists ==
    {head \o [i \in 1..t |-> <<"high", "spread">>] :
        head \in SeqsUpTo(VisionKinds, MaxVaried), t \in 0..(MaxMatches - MaxVaried)}
\* overall_confidence of a parsed response, in 1/100.
VisionOveralls == {70, 150}

VisionInputs ==
    {[stage |-> "parsed", size |-> sz, kinds |-> ks, overall_confidence |-> oc] :
        sz \in ImageSizes, ks \in VisionKindLists, oc \in VisionOveralls}
      \cup
    {[stage |-> st, size |-> <<1000, 800>>, kinds |-> <<>>, overall_confidence |-> 70] :
        st \in {"no_key", "no_image", "api_raise", "parse_error"}}
NoVisionIn ==
    [stage |-> "no_key", size |-> <<1000, 800>>, kinds |-> <<>>, overall_confidence |-> 70]

\* One call of the vision auto_match.
VisionAutoMatchCall ==
    /\ vOut.status = "none"
    /\ vOut' = VisionAutoMatch(vIn)
    /\ UNCHANGED <<vIn, fetchVars, matchVars, gcpVars, confVars, geoVars,
                   dimVars, warpVars, netVars, appVars>>

(***************************************************************************)
(* The two _compute_confidence functions on their own                      *)
(***************************************************************************)

\* The longest list of descriptor distances, and of matches, of these calls.
MaxDistances == 2
MaxConfMatches == 4

\* Arguments of the classical function: inlier counts below, at and above the
\* saturation at 100 and above total_matches, total_matches 0, distances
\* empty, at 0 and above 200, more GCPs than the grid has cells.
ConfInlierCounts == {0, 9, 100, 150}
ConfTotals == {0, 5, 200}
ConfDistances == {0, 150, 250}
ConfGcpCounts == {0, 5, GRID_SIZE * GRID_SIZE, GRID_SIZE * GRID_SIZE + 5}
\* Arguments of the vision function: matches of every tier and of none, at
\* two opposite places and at one between them; a self-reported confidence
\* below 0, inside [0, 1] and above 1.
ConfKinds ==
    {<<(<<0, 0>>), "high">>, <<(<<0, 0>>), "medium">>, <<(<<100, 100>>), "low">>,
     <<(<<100, 100>>), "unsure">>, <<(<<40, 100>>), "high">>}
ConfMatches ==
    {[aerial_x |-> e[1][1], aerial_y |-> e[1][2], satellite_x |-> e[1][1],
      satellite_y |-> e[1][2], confidence |-> e[2]] : e \in ConfKinds}
ConfClaude == {-50, 0, 70, 100, 500}

ConfInputs ==
    {[fn |-> "classical", inlier_count |-> ic, total_matches |-> tm, distances |-> ds,
      ngcps |-> ng, matches |-> <<>>, claude_confidence |-> 0] :
        ic \in ConfInlierCounts, tm \in ConfTotals,
        ds \in SeqsUpTo(ConfDistances, MaxDistances), ng \in ConfGcpCounts}
      \cup
    {[fn |-> "vision", inlier_count |-> 0, total_matches |-> 0, distances |-> <<>>,
      ngcps |-> 0, matches |-> ms, claude_confidence |-> cc] :
        ms \in SeqsUpTo(ConfMatches, MaxConfMatches), cc \in ConfClaude}
NoConfIn ==
    [fn |-> "none", inlier_count |-> 0, total_matches |-> 0, distances |-> <<>>,
     ngcps |-> 0, matches |-> <<>>, claude_confidence |-> 0]
NoConfOut == [done |-> FALSE, num |-> 0, den |-> 1]

\* One call of _compute_confidence of feature_matcher.py (the score in 1/100).
ClassicalConfidenceCall ==
    /\ cIn.fn = "classical"
    /\ ~cOut.done
    /\ cOut' = [done |-> TRUE,
                num |-> ComputeConfidence(cIn.inlier_count, cIn.total_matches,
                                          cIn.distances, cIn.ngcps),
                den |-> 100]
    /\ UNCHANGED <<cIn, fetchVars, matchVars, gcpVars, visionVars, geoVars,
                   dimVars, warpVars, netVars, appVars>>

\* One call of _compute_confidence of vision_matcher.py.
VisionConfidenceCall ==
    /\ cIn.fn = "vision"
    /\ ~cOut.done
    /\ LET c == VisionConfidenceExact(cIn.matches, cIn.claude_confidence)
       IN  cOut' = [done |-> TRUE, num |-> c[1], den |-> c[2]]
    /\ UNCHANGED <<cIn, fetchVars, matchVars, gcpVars, visionVars, geoVars,
                   dimVars, warpVars, netVars, appVars>>

(***************************************************************************)
(* georeferencer.py and the /api/georeference handler of app.py            *)
(*                                                                         *)
(* Units of this part.  Pixel coordinates are integers in 100 pixels,      *)
(* longitudes and latitudes integers in 1/100 degree.  The numbers numpy   *)
(* computes are kept as exact fractions: the six coefficients of a         *)
(* transform, and the four sides of a bounds dict, are numerators over a   *)
(* common denominator den > 0.                                             *)
(***************************************************************************)

\* "if len(gcps) < 5" of run_georeferencing and of the handler.
GEO_MIN_GCPS == 5
\* "max(100, min(8000, ...))" of _warp_image.
MIN_OUT == 100
MAX_OUT == 8000
\* The unit of pixel coordinates in pixels, the units of a degree, and the
\* guard value 1e-6 of "px_size_deg = 1e-6" as units of a degree.
PixelUnit == 100
DegreeUnit == 100
GuardPerDegree == 1000000

Abs(a) == IF a < 0 THEN -a ELSE a
RECURSIVE Gcd(_, _)
Gcd(a, b) == IF b = 0 THEN a ELSE Gcd(b, a % b)

\* A row [1.0, gcp['pixel_x'], gcp['pixel_y']] of the design matrix A.
DesignRow(gcp) == <<1, gcp.pixel_x, gcp.pixel_y>>

\* The GCPs' pixel positions lie on one line (or are all the same point):
\* the columns of A are linearly dependent.
Collinear(gcps) ==
    \A i, j, e \in 1..Len(gcps) :
        (gcps[j].pixel_x - gcps[i].pixel_x) * (gcps[e].pixel_y - gcps[i].pixel_y)
          = (gcps[e].pixel_x - gcps[i].pixel_x) * (gcps[j].pixel_y - gcps[i].pixel_y)
AllSame(gcps) ==
    \A i \in 1..Len(gcps) :
        gcps[i].pixel_x = gcps[1].pixel_x /\ gcps[i].pixel_y = gcps[1].pixel_y

\* Vectors that span the null space of A: none when A has rank 3, the
\* coefficients (c, a, b) of the line a x + b y + c = 0 through the points
\* when it has rank 2, two vectors orthogonal to (1, x0, y0) when all points
\* are (x0, y0).
NullVectors(gcps) ==
    IF ~Collinear(gcps) THEN <<>>
    ELSE IF AllSame(gcps)
    THEN <<(<<-gcps[1].pixel_x, 1, 0>>), (<<-gcps[1].pixel_y, 0, 1>>)>>
    ELSE
      LET j == CHOOSE i \in 1..Len(gcps) :
                   gcps[i].pixel_x # gcps[1].pixel_x \/ gcps[i].pixel_y # gcps[1].pixel_y
          a == gcps[j].pixel_y - gcps[1].pixel_y
          b == gcps[1].pixel_x - gcps[j].pixel_x
          c == -(a * gcps[1].pixel_x + b * gcps[1].pixel_y)
          g == Gcd(Gcd(Abs(a), Abs(b)), Abs(c))
      IN  <<(<<c \div g, a \div g, b \div g>>)>>

Det3(M) ==
    M[1][1] * (M[2][2] * M[3][3] - M[2][3] * M[3][2])
      - M[1][2] * (M[2][1] * M[3][3] - M[2][3] * M[3][1])
      + M[1][3] * (M[2][1] * M[3][2] - M[2][2] * M[3][1])
ReplaceCol(M, c, r) ==
    [i \in 1..3 |-> [j \in 1..3 |-> IF j = c THEN r[i] ELSE M[i][j]]]

\* np.linalg.lstsq(A, z, rcond=None)[0] as <<numerators, denominator>>.  For
\* A of rank 3 it is the solution of the normal equations (A^T A) p = A^T z.
\* For A of lower rank lstsq raises nothing: it returns the solution of least
\* norm, the one orthogonal to the null space of A, which solves
\* (A^T A + sum of v v^T over NullVectors) p = A^T z.
Lstsq(gcps, z) ==
    LET n == Len(gcps)
        V == NullVectors(gcps)
        M == [i \in 1..3 |-> [j \in 1..3 |->
                 SumSeq([e \in 1..n |-> DesignRow(gcps[e])[i] * DesignRow(gcps[e])[j]])
                   + SumSeq([e \in 1..Len(V) |-> V[e][i] * V[e][j]])]]
        r == [i \in 1..3 |-> SumSeq([e \in 1..n |-> DesignRow(gcps[e])[i] * z[e]])]
    IN  <<[j \in 1..3 |-> Det3(ReplaceCol(M, j, r))], Det3(M)>>

NoAffine == [lon_coeffs |-> <<0, 0, 0>>, lat_coeffs |-> <<0, 0, 0>>, den |-> 0]

\* _compute_affine(gcps): the dict with 'lon_coeffs' [a0, a1, a2] and
\* 'lat_coeffs' [b0, b1, b2], in lowest terms.  LinAlgError, the only way to
\* None, is raised by lstsq when the SVD does not converge, which needs
\* entries that are not finite; the GCPs here are numbers.
ComputeAffine(gcps) ==
    LET lon == Lstsq(gcps, [e \in 1..Len(gcps) |-> gcps[e].lon])
        lat == Lstsq(gcps, [e \in 1..Len(gcps) |-> gcps[e].lat])
        d == lon[2]
        g == Gcd(Gcd(Gcd(Abs(lon[1][1]), Abs(lon[1][2])), Gcd(Abs(lon[1][3]), Abs(lat[1][1]))),
                 Gcd(Gcd(Abs(lat[1][2]), Abs(lat[1][3])), d))
    IN  [lon_coeffs |-> [j \in 1..3 |-> lon[1][j] \div g],
         lat_coeffs |-> [j \in 1..3 |-> lat[1][j] \div g],
         den |-> d \div g]

\* A mutant of PixelToGeo: a1 and a2, b1 and b2 are applied to the wrong axis.
PixelToGeoSwapped(px, py, affine) ==
    [lon |-> affine.lon_coeffs[1] + affine.lon_coeffs[3] * px + affine.lon_coeffs[2] * py,
     lat |-> affine.lat_coeffs[1] + affine.lat_coeffs[3] * px + affine.lat_coeffs[2] * py]

\* _pixel_to_geo(px, py, affine): lon and lat as numerators over affine.den.
PixelToGeo(px, py, affine) ==
    [lon |-> affine.lon_coeffs[1] + affine.lon_coeffs[2] * px + affine.lon_coeffs[3] * py,
     lat |-> affine.lat_coeffs[1] + affine.lat_coeffs[2] * px + affine.lat_coeffs[3] * py]

SetMax(S) == CHOOSE v \in S : \A u \in S : u <= v
SetMin(S) == CHOOSE v \in S : \A u \in S : v <= u

NoGeoBounds == [north |-> 0, south |-> 0, east |-> 0, west |-> 0, den |-> 0]

\* _compute_bounds(width, height, affine)
ComputeBounds(width, height, affine) ==
    LET corners == {PixelToGeo(c[1], c[2], affine) :
                       c \in {<<0, 0>>, <<width, 0>>, <<width, height>>, <<0, height>>}}
    IN  [north |-> SetMax({c.lat : c \in corners}),
         south |-> SetMin({c.lat : c \in corners}),
         east |-> SetMax({c.lon : c \in corners}),
         west |-> SetMin({c.lon : c \in corners}),
         den |-> affine.den]

\* The largest e with lo <= e <= hi and e * e <= n, for lo * lo <= n.
RECURSIVE ISqrt(_, _, _)
ISqrt(n, lo, hi) ==
    IF lo >= hi THEN lo
    ELSE LET mid == (lo + hi + 1) \div 2
         IN  IF mid * mid <= n THEN ISqrt(n, mid, hi) ELSE ISqrt(n, lo, mid - 1)

\* A mutant of ClampDim: the lower limit is missing.
ClampDimNoFloor(q) == Min(MAX_OUT, q)

\* max(100, min(8000, q))
ClampDim(q) == Max(MIN_OUT, Min(MAX_OUT, q))

\* max(100, min(8000, int(span / px_size_deg))) for a span of bounds, sq the
\* square a1^2 + b1^2 of the numerators, den the common denominator; int()
\* truncates towards 0.  In degrees the span is span / (DegreeUnit den) and
\* px_size_deg is sqrt(sq) / (DegreeUnit PixelUnit den) per pixel, so that the
\* quotient is PixelUnit span / sqrt(sq); with the guard value, 1e-6 degree
\* per pixel, it is GuardPerDegree span / (DegreeUnit den).  A quotient of
\* MAX_OUT or more is not worked out.
OutDim(span, sq, den) ==
    LET s == Abs(span)
        sign == IF span < 0 THEN -1 ELSE 1
        u == PixelUnit * PixelUnit
        cap == (MAX_OUT \div PixelUnit) * (MAX_OUT \div PixelUnit)
    IN  IF sq = 0
        THEN ClampDim(IF s >= den THEN sign * MAX_OUT
                      ELSE sign * (((GuardPerDegree \div DegreeUnit) * s) \div den))
        ELSE IF s * s >= cap * sq
        THEN ClampDim(sign * MAX_OUT)
        ELSE ClampDim(sign * ISqrt(u * ((s * s) \div sq) + (u * ((s * s) % sq)) \div sq,
                                   0, MAX_OUT))

\* What "M_inv = np.linalg.inv(M_fwd)" can do with the block [[a1, a2],
\* [b1, b2]].  inv raises LinAlgError when the LU factorisation meets a pivot
\* that is exactly 0.  A regular block is inverted.  A block with a zero row
\* or a zero column gives a zero pivot whatever the rounding.  For any other
\* singular block the second pivot is b - fl(l * u) with a rounded multiplier
\* l, which is 0 for some blocks and not for others ([[1, 1], [49, 49]] gives
\* 1 - (1/49) * 49 = 1.1e-16): then inv either raises or returns a matrix.
InvOutcomes(a1, a2, b1, b2) ==
    IF a1 * b2 - a2 * b1 # 0 THEN {"inverse"}
    ELSE IF \/ (a1 = 0 /\ b1 = 0) \/ (a2 = 0 /\ b2 = 0)
            \/ (a1 = 0 /\ a2 = 0) \/ (b1 = 0 /\ b2 = 0)
    THEN {"LinAlgError"}
    ELSE {"LinAlgError", "inverse"}

NoRaster == [kind |-> "none", w |-> 0, h |-> 0, out_w |-> 0, out_h |-> 0]

\* The file _warp_image writes for an image of size (in pixel units) and an
\* outcome o of the inversion: the source as it is, or the remapped array of
\* out_h rows and out_w columns.
WarpImage(size, affine, b, o) ==
    LET sq == affine.lon_coeffs[2] * affine.lon_coeffs[2]
                + affine.lat_coeffs[2] * affine.lat_coeffs[2]
        out_w == OutDim(b.east - b.west, sq, b.den)
        out_h == OutDim(b.north - b.south, sq, b.den)
    IN  IF o = "LinAlgError"
        THEN [kind |-> "source", w |-> PixelUnit * size[1], h |-> PixelUnit * size[2],
              out_w |-> out_w, out_h |-> out_h]
        ELSE [kind |-> "warped", w |-> out_w, h |-> out_h,
              out_w |-> out_w, out_h |-> out_h]

\* _compute_residuals(affine, gcps).  error_m is the haversine distance from
\* the GCP to its predicted position: the model keeps the offset it is taken
\* of, as numerators over affine.den, and whether every error_m and the rms
\* are 0 (an offset of 0).
ComputeResiduals(affine, gcps) ==
    LET off == [e \in 1..Len(gcps) |->
                   LET p == PixelToGeo(gcps[e].pixel_x, gcps[e].pixel_y, affine)
                   IN  [gcp_id |-> e,
                        off_lon |-> p.lon - gcps[e].lon * affine.den,
                        off_lat |-> p.lat - gcps[e].lat * affine.den]]
    IN  [per_point |-> off,
         rms_zero |-> \A e \in 1..Len(gcps) : off[e].off_lon = 0 /\ off[e].off_lat = 0]

\* The 1000 x 800 source raster of the model, in pixel units.
GeoImageSize == <<10, 8>>

\* Pixel positions of GCP lists: the 4 corners and the center of the raster,
\* the 4 corners alone, 5 positions on the diagonal x = y, on the line
\* y = 4, on the left edge x = 0 and on one point, and 6 scattered positions.
GeoLayouts ==
    [corners5 |-> <<(<<0, 0>>), (<<10, 0>>), (<<10, 8>>), (<<0, 8>>), (<<5, 4>>)>>,
     corners4 |-> <<(<<0, 0>>), (<<10, 0>>), (<<10, 8>>), (<<0, 8>>)>>,
     diagonal |-> <<(<<0, 0>>), (<<2, 2>>), (<<4, 4>>), (<<6, 6>>), (<<8, 8>>)>>,
     level |-> <<(<<0, 4>>), (<<2, 4>>), (<<5, 4>>), (<<7, 4>>), (<<10, 4>>)>>,
     left |-> <<(<<0, 0>>), (<<0, 2>>), (<<0, 4>>), (<<0, 6>>), (<<0, 8>>)>>,
     same |-> <<(<<5, 4>>), (<<5, 4>>), (<<5, 4>>), (<<5, 4>>), (<<5, 4>>)>>,
     scatter |-> <<(<<1, 1>>), (<<9, 2>>), (<<4, 7>>), (<<8, 6>>), (<<2, 5>>), (<<6, 3>>)>>]

\* The transforms the GCPs' lon and lat are generated from: north up,
\* rotated, all GCPs on one parallel, all GCPs on one spot.
GeoTransforms ==
    [north_up |-> [lon_coeffs |-> <<-9, 2, 0>>, lat_coeffs |-> <<35, 0, -2>>],
     rotated |-> [lon_coeffs |-> <<3, 2, 1>>, lat_coeffs |-> <<40, 1, -2>>],
     parallel |-> [lon_coeffs |-> <<3, 2, 1>>, lat_coeffs |-> <<7, 0, 0>>],
     spot |-> [lon_coeffs |-> <<5, 0, 0>>, lat_coeffs |-> <<7, 0, 0>>]]

\* The GCP list of a layout under a transform; with noise the last GCP is
\* moved 5/100 degree east of where the transform puts it.
GeoGcps(layout, transform, noise) ==
    LET pts == GeoLayouts[layout]
        t == GeoTransforms[transform]
    IN  [e \in 1..Len(pts) |->
            [pixel_x |-> pts[e][1], pixel_y |-> pts[e][2],
             lon |-> t.lon_coeffs[1] + t.lon_coeffs[2] * pts[e][1]
                       + t.lon_coeffs[3] * pts[e][2]
                       + (IF noise /\ e = Len(pts) THEN 5 ELSE 0),
             lat |-> t.lat_coeffs[1] + t.lat_coeffs[2] * pts[e][1]
                       + t.lat_coeffs[3] * pts[e][2]]]

GeoGcpChoices ==
    {[layout |-> l, transform |-> t, noise |-> nz] :
        l \in DOMAIN GeoLayouts, t \in DOMAIN GeoTransforms, nz \in {FALSE}}
      \cup {[layout |-> "corners5", transform |-> "north_up", noise |-> TRUE]}

\* What is passed as gcps: a list of GCPs ("list"), None, the JSON null
\* ("null"), or a list of 5 entries that lack the key pixel_x ("malformed");
\* for the last two the choice of GCPs is of no account and is fixed.
GeoPayloads == {"list", "null", "malformed"}
GeoPayloadChoices ==
    {pg \in GeoPayloads \X GeoGcpChoices :
        pg[1] # "list" =>
            pg[2] = [layout |-> "corners5", transform |-> "north_up", noise |-> FALSE]}

\* A request to /api/georeference (via "api": whether the body is JSON,
\* whether it names an image_id) or a call of run_georeferencing (via
\* "direct"), the GCP list, and the state of the uploaded file.
GeoRequests ==
    {[via |-> "api", data |-> d, image_id |-> id, file |-> f, payload |-> pg[1],
      gcps |-> pg[2]] :
        d \in BOOLEAN, id \in BOOLEAN, f \in {"missing", "corrupt", "ok"},
        pg \in GeoPayloadChoices}
      \cup
    {[via |-> "direct", data |-> TRUE, image_id |-> TRUE, file |-> f, payload |-> pg[1],
      gcps |-> pg[2]] :
        f \in {"missing", "corrupt", "ok"}, pg \in GeoPayloadChoices}
NoGeoRequest ==
    [via |-> "none", data |-> FALSE, image_id |-> FALSE, file |-> "missing",
     payload |-> "list",
     gcps |-> [layout |-> "corners4", transform |-> "spot", noise |-> FALSE]]
\* The list gcps of a request.
GcpsOf(q) == GeoGcps(q.gcps.layout, q.gcps.transform, q.gcps.noise)

NoGeoFit == [affine |-> NoAffine, bounds |-> NoGeoBounds]
NoGeoDisk == [raster |-> NoRaster, sidecar |-> <<>>]
NoResiduals == [per_point |-> <<>>, rms_zero |-> FALSE]
NoGeoResult ==
    [status |-> "none", why |-> "none", http |-> 0, residuals |-> NoResiduals,
     bounds |-> NoGeoBounds]
GeoError(why, http) == [NoGeoResult EXCEPT !.status = "error", !.why = why, !.http = http]
\* No dict comes back: the exception leaves the function (in the handler it
\* leaves the view, and the server answers 500).
GeoRaised(why, http) == [NoGeoResult EXCEPT !.status = "raised", !.why = why, !.http = http]

\* The handler georeference() of app.py up to the call of run_georeferencing.
GeoreferenceRequest(q) ==
    /\ gpc = "idle"
    /\ q.via = "api"
    /\ gq' = q
    /\ IF ~q.data THEN gpc' = "done" /\ gres' = GeoError("no_json", 400)
       ELSE IF ~q.image_id THEN gpc' = "done" /\ gres' = GeoError("missing_image_id", 400)
       ELSE IF q.payload = "null" THEN gpc' = "done" /\ gres' = GeoRaised("TypeError", 500)
       ELSE IF Len(GcpsOf(q)) < GEO_MIN_GCPS
            THEN gpc' = "done" /\ gres' = GeoError("min_gcps", 400)
       ELSE IF q.file = "missing"
            THEN gpc' = "done" /\ gres' = GeoError("image_not_found", 404)
       ELSE gpc' = "run" /\ gres' = gres
    /\ UNCHANGED <<gfit, gdisk, glog>>
    /\ UNCHANGED <<fetchVars, matchVars, gcpVars, visionVars, confVars,
                   dimVars, warpVars, netVars, appVars>>

\* run_georeferencing(input_tiff, output_tiff, gcps) called on its own.
RunGeoreferencing(q) ==
    /\ gpc = "idle"
    /\ q.via = "direct"
    /\ gq' = q
    /\ gpc' = "run"
    /\ UNCHANGED <<gfit, gdisk, glog, gres>>
    /\ UNCHANGED <<fetchVars, matchVars, gcpVars, visionVars, confVars,
                   dimVars, warpVars, netVars, appVars>>

\* What the caller gets for a result of run_georeferencing: the dict itself,
\* or the handler's response (500 for an error, the dict otherwise).
GeoReturn(r) ==
    IF gq.via = "api"
    THEN [r EXCEPT !.http = IF r.status = "error" THEN 500 ELSE 200]
    ELSE r

\* A mutant of GeoTooFew: a list of 4 is accepted.
GeoTooFewLax(gcps) == Len(gcps) < GEO_MIN_GCPS - 1

\* "if len(gcps) < 5" of run_georeferencing.
GeoTooFew(gcps) == Len(gcps) < GEO_MIN_GCPS

\* run_georeferencing: the test on len(gcps), which stands before the try
\* and raises TypeError for None, and step 1, _compute_affine, which raises
\* KeyError inside the try for an entry without pixel_x.
GeoFit ==
    /\ gpc = "run"
    /\ IF gq.payload = "null"
       THEN /\ gpc' = "done"
            /\ gres' = GeoRaised("TypeError", 0)
            /\ UNCHANGED <<gfit, glog>>
       ELSE IF GeoTooFew(GcpsOf(gq))
       THEN /\ gpc' = "done"
            /\ gres' = GeoReturn(GeoError("min_gcps", 0))
            /\ UNCHANGED <<gfit, glog>>
       ELSE IF gq.payload = "malformed"
       THEN /\ gpc' = "done"
            /\ gres' = GeoReturn(GeoError("georeferencing_failed", 0))
            /\ UNCHANGED <<gfit, glog>>
       ELSE /\ gpc' = "open"
            /\ gfit' = [gfit EXCEPT !.affine = ComputeAffine(GcpsOf(gq))]
            /\ glog' = Append(glog, "fit")
            /\ UNCHANGED gres
    /\ UNCHANGED <<gq, gdisk>>
    /\ UNCHANGED <<fetchVars, matchVars, gcpVars, visionVars, confVars,
                   dimVars, warpVars, netVars, appVars>>

\* Step 2: Image.open(input_tiff), which raises for a file that is missing or
\* not an image, and _compute_bounds.
GeoOpen ==
    /\ gpc = "open"
    /\ IF gq.file # "ok"
       THEN /\ gpc' = "done"
            /\ gres' = GeoReturn(GeoError("georeferencing_failed", 0))
            /\ UNCHANGED <<gfit, glog>>
       ELSE /\ gpc' = "warp"
            /\ gfit' = [gfit EXCEPT !.bounds = ComputeBounds(GeoImageSize[1], GeoImageSize[2],
                                                             gfit.affine)]
            /\ glog' = Append(glog, "open")
            /\ UNCHANGED gres
    /\ UNCHANGED <<gq, gdisk>>
    /\ UNCHANGED <<fetchVars, matchVars, gcpVars, visionVars, confVars,
                   dimVars, warpVars, netVars, appVars>>

\* Step 3: _warp_image(input_tiff, output_tiff, affine, bounds), o being what
\* np.linalg.inv does.
GeoWarp(o) ==
    /\ gpc = "warp"
    /\ o \in InvOutcomes(gfit.affine.lon_coeffs[2], gfit.affine.lon_coeffs[3],
                         gfit.affine.lat_coeffs[2], gfit.affine.lat_coeffs[3])
    /\ gdisk' = [gdisk EXCEPT !.raster = WarpImage(GeoImageSize, gfit.affine, gfit.bounds, o)]
    /\ glog' = Append(glog, "write_raster")
    /\ gpc' = "sidecar"
    /\ UNCHANGED <<gq, gfit, gres>>
    /\ UNCHANGED <<fetchVars, matchVars, gcpVars, visionVars, confVars,
                   dimVars, warpVars, netVars, appVars>>

\* Steps 4 and 5: the bounds sidecar, _compute_residuals, the return.
GeoFinish ==
    /\ gpc = "sidecar"
    /\ gdisk' = [gdisk EXCEPT !.sidecar = <<gfit.bounds>>]
    /\ glog' = Append(glog, "write_sidecar")
    /\ gres' = GeoReturn([NoGeoResult EXCEPT
                            !.status = "success", !.why = "georeferenced",
                            !.residuals = ComputeResiduals(gfit.affine, GcpsOf(gq)),
                            !.bounds = gfit.bounds])
    /\ gpc' = "done"
    /\ UNCHANGED <<gq, gfit>>
    /\ UNCHANGED <<fetchVars, matchVars, gcpVars, visionVars, confVars,
                   dimVars, warpVars, netVars, appVars>>

(***************************************************************************)
(* The output size of _warp_image on its own                               *)
(***************************************************************************)

\* First columns (a1, b1) of a transform, among them (0, 0), and spans of
\* bounds, among them 0 and an inverted span; all over the denominator 1.
DimColumns == {<<0, 0>>, <<2, 0>>, <<0, -2>>, <<3, -4>>, <<1, 49>>}
DimSpans == {-5, 0, 1, 3, 40, 460}
DimInputs == [col : DimColumns, lon_span : DimSpans, lat_span : DimSpans]
NoDimIn == [col |-> <<0, 0>>, lon_span |-> 0, lat_span |-> 0]
NoDimOut == [done |-> FALSE, out_w |-> 0, out_h |-> 0]

\* "Determine output dimensions" of _warp_image.
OutputSizeCall ==
    /\ ~dOut.done
    /\ LET sq == dIn.col[1] * dIn.col[1] + dIn.col[2] * dIn.col[2]
       IN  dOut' = [done |-> TRUE, out_w |-> OutDim(dIn.lon_span, sq, 1),
                    out_h |-> OutDim(dIn.lat_span, sq, 1)]
    /\ UNCHANGED <<dIn, fetchVars, matchVars, gcpVars, visionVars, confVars,
                   geoVars, warpVars, netVars, appVars>>

(***************************************************************************)
(* _compute_bounds and _warp_image on a transform that maps pixel (px, py) *)
(* to (a0 + px, b0 - py)                                                   *)
(***************************************************************************)

\* Sizes of the source image, among them sizes below MIN_OUT and above
\* MAX_OUT, and offsets a0 and b0 in 1/10000 degree: 0, 30.9242 and -90.1.
WarpSizes == {50, 100, 101, 1000, 8000, 8001}
WarpLonOffsets == {0, 309242}
WarpLatOffsets == {0, -901000}
WarpInputs == [w : WarpSizes, h : WarpSizes, a0 : WarpLonOffsets, b0 : WarpLatOffsets]
NoWarpIn == [w |-> 0, h |-> 0, a0 |-> 0, b0 |-> 0]
NoWarpOut == [done |-> FALSE, out_w |-> 0, out_h |-> 0, map |-> <<>>]

\* int(lon_span / px_size_deg) with a1 = 1, a2 = 0, b1 = 0: px_size_deg is
\* sqrt(1) = 1.0 and lon_span is east - west = (a0 + w) - a0 in IEEE doubles,
\* east being rounded to a double before west is subtracted.  With a0 = 0 the
\* span is w exactly.  With a0 = 30.9242 the span is 99.99999999999999 for
\* w = 100, 100.99999999999999 for w = 101 and 999.9999999999999 for
\* w = 1000, which int() truncates to w - 1, and w for the other sizes.
WarpLonQuotient(a0, w) ==
    IF a0 = 309242 /\ w \in {100, 101, 1000} THEN w - 1 ELSE w

\* int(lat_span / px_size_deg) with b2 = -1: lat_span is north - south =
\* b0 - (b0 - h) in IEEE doubles.  With b0 = -90.1 and h = 1000 the span is
\* 999.9999999999999, truncated to 999; for the other inputs it is h.
WarpLatQuotient(b0, h) ==
    IF b0 = -901000 /\ h = 1000 THEN h - 1 ELSE h

\* Output pixels whose source coordinates are recorded: the first, the last
\* and the middle one.
WarpProbes(out_w, out_h) ==
    {<<0, 0>>, <<out_w - 1, out_h - 1>>, <<out_w \div 2, out_h \div 2>>}

\* _compute_bounds followed by _warp_image.  The inverse of [[1, 0], [0, -1]]
\* is itself, west is a0 and north is b0, so that output pixel (ox, oy) is
\* sampled at src_px_x = ox * (lon_span / out_w) and src_px_y = oy *
\* (lat_span / out_h), kept as fractions x_num / x_den and y_num / y_den; the
\* 1e-13 that a rounded span lacks is below the resolution of the float32
\* maps of cv2.remap and is left out.
WarpImageCall ==
    /\ ~wOut.done
    /\ LET out_w == ClampDim(WarpLonQuotient(wIn.a0, wIn.w))
           out_h == ClampDim(WarpLatQuotient(wIn.b0, wIn.h))
       IN  wOut' = [done |-> TRUE, out_w |-> out_w, out_h |-> out_h,
                    map |-> [p \in WarpProbes(out_w, out_h) |->
                               [x_num |-> p[1] * wIn.w, x_den |-> out_w,
                                y_num |-> p[2] * wIn.h, y_den |-> out_h]]]
    /\ UNCHANGED <<wIn, fetchVars, matchVars, gcpVars, visionVars, confVars,
                   geoVars, dimVars, netVars, appVars>>

(***************************************************************************)
(* The network calls: requests.get of _download_tile and                   *)
(* client.messages.create of _call_claude_vision                           *)
(***************************************************************************)

\* The tiles (z, x, y) _download_tile is called for, and what the call of
\* client.messages.create does: it returns the response text or raises.
NetTiles == {<<17, 0, 0>>, <<17, 1, 0>>}
VisionCallOutcomes == {"text", "APITimeoutError", "APIConnectionError", "APIStatusError"}
NoNetReturn == [of |-> "none", value |-> "none"]

\* The call requests.get(url, headers={...}, timeout=10) for a tile: the
\* keyword arguments it is made with and the arguments its client was built
\* with (there is none), and the response.
TileCall(t, resp) ==
    [service |-> "tile", url |-> t, args |-> {"url", "headers", "timeout"},
     client |-> {}, resp |-> resp]

\* The call client.messages.create(model=..., max_tokens=..., messages=...) on
\* the client anthropic.Anthropic(api_key=api_key).
VisionCall(o) ==
    [service |-> "vision", url |-> <<0, 0, 0>>, args |-> {"model", "max_tokens", "messages"},
     client |-> {"api_key"}, resp |-> o]

\* One requests.get of _download_tile(z, x, y) and what follows it: the
\* return of the array or of None, or the next attempt.
NetTileRequest(t, resp) ==
    /\ nPc \in {"idle", "tile"}
    /\ nPc = "tile" => t = nCalls[1].url
    /\ nCalls' = Append(nCalls, TileCall(t, resp))
    /\ LET step == DownloadTileStep(Len(nCalls), resp)
       IN  IF step = "retry"
           THEN nPc' = "tile" /\ UNCHANGED nRet
           ELSE nPc' = "done" /\ nRet' = [of |-> "_download_tile", value |-> step]
    /\ UNCHANGED <<fetchVars, matchVars, gcpVars, visionVars, confVars, geoVars,
                   dimVars, warpVars, appVars>>

\* Stage 5 of the vision auto_match: _call_claude_vision makes one call; its
\* text goes on to stage 6, an exception becomes {'error': 'Claude Vision API
\* call failed: ...'}.
NetVisionRequest(o) ==
    /\ nPc = "idle"
    /\ nCalls' = <<VisionCall(o)>>
    /\ nPc' = "done"
    /\ nRet' = [of |-> "auto_match", value |-> IF o = "text" THEN "text" ELSE "error"]
    /\ UNCHANGED <<fetchVars, matchVars, gcpVars, visionVars, confVars, geoVars,
                   dimVars, warpVars, appVars>>

(***************************************************************************)
(* The handlers georeference, preview_overlay and export of app.py on one  *)
(* image id, served to several clients at once                             *)
(***************************************************************************)

\* The clients whose requests the threaded server of app.run handles side by
\* side, and the modes of the raster that _warp_image writes (an upload of
\* another mode is converted to RGB).
Clients == {"c1", "c2"}
AppModes == {"RGB", "RGBA"}
\* The calls of run_georeferencing that are followed.
MaxRuns == 2

\* The files {image_id}_georef.tiff, {image_id}_georef_bounds.json,
\* {image_id}_preview_overlay.jpg and .png: 0 for a file that is absent, else
\* the number of the run that wrote it, or, for a preview, of the run whose
\* raster it was rendered from.
NoAppDisk == [raster |-> 0, sidecar |-> 0, jpg |-> 0, png |-> 0]
\* A client's request to /api/georeference: where it is ("idle" for none or
\* for one that was answered), the number of its run, the files the run has
\* written and what the run returned.
NoAppRequest == [pc |-> "idle", run |-> 0, wrote |-> {}, result |-> "none"]
\* What a preview was rendered from, the run that had returned success last
\* when it was served, and whether a run was under way then.
NoServed == [status |-> "none", from |-> 0, last |-> 0, busy |-> FALSE]
\* The runs that the raster and the bounds of an export come from.
NoExported == [status |-> "none", raster |-> 0, bounds |-> 0, busy |-> FALSE]

\* A run of run_georeferencing is under way.
AppBusy == \E c \in Clients : aReq[c].pc # "idle"

\* georeference() for a request that passes its checks (JSON, image_id, 5
\* GCPs, uploaded file): run_georeferencing is entered.  No lock is taken and
\* no other request is looked at.
AppGeoreference(c) ==
    /\ aReq[c].pc = "idle"
    /\ aRuns < MaxRuns
    /\ aRuns' = aRuns + 1
    /\ aReq' = [aReq EXCEPT ![c] = [pc |-> "run", run |-> aRuns + 1, wrote |-> {},
                                    result |-> "none"]]
    /\ UNCHANGED <<aMode, aDisk, aLast, aServed, aExported>>
    /\ UNCHANGED <<fetchVars, matchVars, gcpVars, visionVars, confVars, geoVars,
                   dimVars, warpVars, netVars>>

\* Steps 1 to 3 of run_georeferencing: o = "saved" when _warp_image saves the
\* output raster, "raised" when a step before the save raises (the upload is
\* not an image, a GCP lacks a key), which the except clause turns into an
\* error.
AppWarp(c, o) ==
    /\ aReq[c].pc = "run"
    /\ IF o = "saved"
       THEN /\ aDisk' = [aDisk EXCEPT !.raster = aReq[c].run]
            /\ aReq' = [aReq EXCEPT ![c].pc = "sidecar", ![c].wrote = {"raster"}]
       ELSE /\ aReq' = [aReq EXCEPT ![c].pc = "idle", ![c].result = "error"]
            /\ UNCHANGED aDisk
    /\ UNCHANGED <<aMode, aRuns, aLast, aServed, aExported>>
    /\ UNCHANGED <<fetchVars, matchVars, gcpVars, visionVars, confVars, geoVars,
                   dimVars, warpVars, netVars>>

\* Steps 4 and 5 of run_georeferencing and the return: o = "written" when
\* open(bounds_path, 'w') and json.dump succeed, "raised" when open raises
\* OSError (the sidecar is read-only, the disk is full), which the except
\* clause turns into an error.
AppSidecar(c, o) ==
    /\ aReq[c].pc = "sidecar"
    /\ IF o = "written"
       THEN /\ aDisk' = [aDisk EXCEPT !.sidecar = aReq[c].run]
            /\ aReq' = [aReq EXCEPT ![c].pc = "idle", ![c].result = "success",
                                    ![c].wrote = {"raster", "sidecar"}]
            /\ aLast' = aReq[c].run
       ELSE /\ aReq' = [aReq EXCEPT ![c].pc = "idle", ![c].result = "error"]
            /\ UNCHANGED <<aDisk, aLast>>
    /\ UNCHANGED <<aMode, aRuns, aServed, aExported>>
    /\ UNCHANGED <<fetchVars, matchVars, gcpVars, visionVars, confVars, geoVars,
                   dimVars, warpVars, netVars>>

\* preview_overlay() without ?bounds: 404 without a raster; the JPEG is
\* rendered "if not os.path.exists(preview_jpg)" and then sent, a raster of
\* mode RGBA is saved as PNG and sent instead.
AppPreview ==
    /\ IF aDisk.raster = 0
       THEN /\ aServed' = [status |-> "404", from |-> 0, last |-> aLast, busy |-> AppBusy]
            /\ UNCHANGED aDisk
       ELSE IF aDisk.jpg # 0
       THEN /\ aServed' = [status |-> "jpeg", from |-> aDisk.jpg, last |-> aLast,
                           busy |-> AppBusy]
            /\ UNCHANGED aDisk
       ELSE IF aMode = "RGBA"
       THEN /\ aDisk' = [aDisk EXCEPT !.png = aDisk.raster]
            /\ aServed' = [status |-> "png", from |-> aDisk.raster, last |-> aLast,
                           busy |-> AppBusy]
       ELSE /\ aDisk' = [aDisk EXCEPT !.jpg = aDisk.raster]
            /\ aServed' = [status |-> "jpeg", from |-> aDisk.raster, last |-> aLast,
                           busy |-> AppBusy]
    /\ UNCHANGED <<aMode, aReq, aRuns, aLast, aExported>>
    /\ UNCHANGED <<fetchVars, matchVars, gcpVars, visionVars, confVars, geoVars,
                   dimVars, warpVars, netVars>>

\* export() without adjusted_bounds: 404 without a raster; generate_kmz takes
\* the bounds of _read_bounds, which are None without a sidecar, and the
\* pixels of the raster.
AppExport ==
    /\ aExported' =
          IF aDisk.raster = 0
          THEN [status |-> "404", raster |-> 0, bounds |-> 0, busy |-> AppBusy]
          ELSE IF aDisk.sidecar = 0
          THEN [status |-> "no_bounds", raster |-> aDisk.raster, bounds |-> 0,
                busy |-> AppBusy]
          ELSE [status |-> "kmz", raster |-> aDisk.raster, bounds |-> aDisk.sidecar,
                busy |-> AppBusy]
    /\ UNCHANGED <<aMode, aDisk, aReq, aRuns, aLast, aServed>>
    /\ UNCHANGED <<fetchVars, matchVars, gcpVars, visionVars, confVars, geoVars,
                   dimVars, warpVars, netVars>>

FetchInit ==
    /\ pc = "idle"
    /\ caller = "none"
    /\ bounds = NoBounds
    /\ grid = NoGrid
    /\ k = 0
    /\ attempt = 0
    /\ backoffs = <<>>
    /\ tiles = {}
    /\ failures = 0
    /\ requests = 0
    /\ lastTile = NoTile
    /\ download = NoDownload
    /\ matcherCalled = FALSE
    /\ result = NoResult

\* No call of the vision matcher, of a _compute_confidence, of the
\* georeferencer, of the output size or of the warp, no network call and no
\* request to the application.
VisionIdle == vIn = NoVisionIn /\ vOut = NoVisionOut
ConfIdle == cIn = NoConfIn /\ cOut = NoConfOut
GeoIdle ==
    /\ gq = NoGeoRequest
    /\ gpc = "idle"
    /\ gfit = NoGeoFit
    /\ gdisk = NoGeoDisk
    /\ glog = <<>>
    /\ gres = NoGeoResult
DimIdle == dIn = NoDimIn /\ dOut = NoDimOut
WarpIdle == wIn = NoWarpIn /\ wOut = NoWarpOut
NetIdle == nPc = "idle" /\ nCalls = <<>> /\ nRet = NoNetReturn
AppIdle ==
    /\ aMode = "none"
    /\ aDisk = NoAppDisk
    /\ aReq = [c \in Clients |-> NoAppRequest]
    /\ aRuns = 0
    /\ aLast = 0
    /\ aServed = NoServed
    /\ aExported = NoExported

Init ==
    /\ FetchInit
    /\ mIn = NoMatchIn
    /\ mOut = NoMatchOut
    /\ gIn = NoGcpIn
    /\ gOut = NoGcpOut
    /\ VisionIdle /\ ConfIdle /\ GeoIdle /\ DimIdle
    /\ WarpIdle /\ NetIdle /\ AppIdle

Next ==
    \/ \E b \in Boxes : RunAutoGeoreferencing(b)
    \/ \E b \in DirectBoxes : DirectDownload(b)
    \/ \E r \in Responses : TileRequest(r)
    \/ FinishDownload
    \/ \E o \in MatcherOutcomes : CallMatcher(o)

Spec == Init /\ [][Next]_vars

\* The classical auto_match on every input of MatchInputs.
InitMatch ==
    /\ FetchInit
    /\ mIn \in MatchInputs
    /\ mOut = NoMatchOut
    /\ gIn = NoGcpIn
    /\ gOut = NoGcpOut
    /\ VisionIdle /\ ConfIdle /\ GeoIdle /\ DimIdle
    /\ WarpIdle /\ NetIdle /\ AppIdle
NextMatch == AutoMatchCall
SpecMatch == InitMatch /\ [][NextMatch]_vars

\* _extract_gcps on every input of GcpInputs.
InitGcp ==
    /\ FetchInit
    /\ mIn = NoMatchIn
    /\ mOut = NoMatchOut
    /\ gIn \in {in \in GcpInputs : GcpInputOk(in)}
    /\ gOut = NoGcpOut
    /\ VisionIdle /\ ConfIdle /\ GeoIdle /\ DimIdle
    /\ WarpIdle /\ NetIdle /\ AppIdle
NextGcp == ExtractGcpsCall
SpecGcp == InitGcp /\ [][NextGcp]_vars

\* One call of an auto_match, the classical on every input of MatchInputs or
\* the vision one on every input of VisionInputs.
InitMatchers ==
    /\ FetchInit
    /\ \/ mIn \in MatchInputs /\ vIn = NoVisionIn
       \/ mIn = NoMatchIn /\ vIn \in VisionInputs
    /\ mOut = NoMatchOut
    /\ vOut = NoVisionOut
    /\ gIn = NoGcpIn
    /\ gOut = NoGcpOut
    /\ ConfIdle /\ GeoIdle /\ DimIdle /\ WarpIdle /\ NetIdle /\ AppIdle
NextMatchers ==
    \/ vIn = NoVisionIn /\ AutoMatchCall
    \/ mIn = NoMatchIn /\ VisionAutoMatchCall
SpecMatchers == InitMatchers /\ [][NextMatchers]_vars

\* One call of a _compute_confidence on every input of ConfInputs.
InitConf ==
    /\ FetchInit
    /\ mIn = NoMatchIn
    /\ mOut = NoMatchOut
    /\ gIn = NoGcpIn
    /\ gOut = NoGcpOut
    /\ cIn \in ConfInputs
    /\ cOut = NoConfOut
    /\ VisionIdle /\ GeoIdle /\ DimIdle /\ WarpIdle /\ NetIdle /\ AppIdle
NextConf == ClassicalConfidenceCall \/ VisionConfidenceCall
SpecConf == InitConf /\ [][NextConf]_vars

\* A request to /api/georeference or a call of run_georeferencing.
InitGeoref ==
    /\ FetchInit
    /\ mIn = NoMatchIn
    /\ mOut = NoMatchOut
    /\ gIn = NoGcpIn
    /\ gOut = NoGcpOut
    /\ VisionIdle /\ ConfIdle /\ GeoIdle /\ DimIdle
    /\ WarpIdle /\ NetIdle /\ AppIdle
NextGeoref ==
    \/ \E q \in GeoRequests : GeoreferenceRequest(q)
    \/ \E q \in GeoRequests : RunGeoreferencing(q)
    \/ GeoFit
    \/ GeoOpen
    \/ \E o \in {"LinAlgError", "inverse"} : GeoWarp(o)
    \/ GeoFinish
SpecGeoref == InitGeoref /\ [][NextGeoref]_vars

\* The output size of _warp_image on every input of DimInputs.
InitDim ==
    /\ FetchInit
    /\ mIn = NoMatchIn
    /\ mOut = NoMatchOut
    /\ gIn = NoGcpIn
    /\ gOut = NoGcpOut
    /\ dIn \in DimInputs
    /\ dOut = NoDimOut
    /\ VisionIdle /\ ConfIdle /\ GeoIdle /\ WarpIdle /\ NetIdle /\ AppIdle
NextDim == OutputSizeCall
SpecDim == InitDim /\ [][NextDim]_vars

\* _compute_bounds and _warp_image on every input of WarpInputs.
InitWarp ==
    /\ FetchInit
    /\ mIn = NoMatchIn
    /\ mOut = NoMatchOut
    /\ gIn = NoGcpIn
    /\ gOut = NoGcpOut
    /\ wIn \in WarpInputs
    /\ wOut = NoWarpOut
    /\ VisionIdle /\ ConfIdle /\ GeoIdle /\ DimIdle /\ NetIdle /\ AppIdle
NextWarp == WarpImageCall
SpecWarp == InitWarp /\ [][NextWarp]_vars

\* One call of _download_tile or one stage 5 of the vision auto_match.
InitNet ==
    /\ FetchInit
    /\ mIn = NoMatchIn
    /\ mOut = NoMatchOut
    /\ gIn = NoGcpIn
    /\ gOut = NoGcpOut
    /\ VisionIdle /\ ConfIdle /\ GeoIdle /\ DimIdle /\ WarpIdle /\ NetIdle /\ AppIdle
NextNet ==
    \/ \E t \in NetTiles, r \in Responses : NetTileRequest(t, r)
    \/ \E o \in VisionCallOutcomes : NetVisionRequest(o)
SpecNet == InitNet /\ [][NextNet]_vars

\* Requests of the clients to /api/georeference, /api/preview-overlay and
\* /api/export for one image id, nothing of it being in EXPORT_FOLDER yet.
InitApp ==
    /\ FetchInit
    /\ mIn = NoMatchIn
    /\ mOut = NoMatchOut
    /\ gIn = NoGcpIn
    /\ gOut = NoGcpOut
    /\ VisionIdle /\ ConfIdle /\ GeoIdle /\ DimIdle /\ WarpIdle /\ NetIdle
    /\ aMode \in AppModes
    /\ aDisk = NoAppDisk
    /\ aReq = [c \in Clients |-> NoAppRequest]
    /\ aRuns = 0
    /\ aLast = 0
    /\ aServed = NoServed
    /\ aExported = NoExported
NextApp ==
    \/ \E c \in Clients : AppGeoreference(c)
    \/ \E c \in Clients, o \in {"saved", "raised"} : AppWarp(c, o)
    \/ \E c \in Clients, o \in {"written", "raised"} : AppSidecar(c, o)
    \/ AppPreview
    \/ AppExport
SpecApp == InitApp /\ [][NextApp]_vars

(***************************************************************************)
(* Properties of run_auto_georeferencing, download_reference_image and     *)
(* _download_tile, checked under Spec.                                     *)
(***************************************************************************)

LatSpan(b) == b.north - b.south
LonSpan(b) == b.east - b.west
\* download_reference_image was entered in this run.
DownloadInvoked == download.status # "none"
\* The count (xMax - xMin + 1) * (yMax - yMin + 1) of the grid in the state.
GridCount == (grid.x_max - grid.x_min + 1) * (grid.y_max - grid.y_min + 1)

\* The boxes C1 says are rejected.
C1_Rejectable(b) ==
    \/ b.north <= b.south
    \/ b.east <= b.west
    \/ LatSpan(b) > MAX_SPAN
    \/ LonSpan(b) > MAX_SPAN
    \/ (LatSpan(b) < MIN_SPAN /\ LonSpan(b) < MIN_SPAN)

\* C1: run_auto_georeferencing validates the box before any fetch or match
\* work: with north <= south or east <= west, a span above 0.5 degrees, or
\* both spans below 0.001 degrees, the run ends with an error result, and
\* download_reference_image is not entered, no tile is requested and auto_match
\* is not invoked.
C1_ValidationBeforeWork ==
    (caller = "auto" /\ C1_Rejectable(bounds)) =>
        /\ pc = "done"
        /\ result.status = "error"
        /\ result.why \in {"invalid", "too_large", "too_small"}
        /\ ~DownloadInvoked
        /\ requests = 0
        /\ ~matcherCalled

C1_Witness ==
    /\ caller = "auto"
    /\ LatSpan(bounds) > MAX_SPAN
    /\ LonSpan(bounds) \in MIN_SPAN..MAX_SPAN
    /\ pc = "done"
    /\ result = [status |-> "error", why |-> "too_large"]

\* A span outside [MIN_SPAN, MAX_SPAN].
OutsideRange(span) == span < MIN_SPAN \/ span > MAX_SPAN

C3_Validated(b) ==
    /\ b.north > b.south
    /\ b.east > b.west
    /\ LatSpan(b) \in MIN_SPAN..MAX_SPAN
    /\ LonSpan(b) \in MIN_SPAN..MAX_SPAN

\* C3 as stated: for a validated box the tile count at zoom 17 is
\* (xMax-xMin+1)*(yMax-yMin+1) and at most 400, and the too-many-tiles error
\* is never raised.
C3_Original ==
    (C3_Validated(bounds) /\ DownloadInvoked) =>
        /\ download.tile_count = GridCount
        /\ download.tile_count <= MAX_TILES
        /\ download.why # "too_many_tiles"

\* C3 as amended: for a validated box the tile count at zoom 17 is
\* (xMax-xMin+1)*(yMax-yMin+1) and at least 1; it may exceed 400, and the
\* too-many-tiles error is raised exactly when it does.
C3_TileCount ==
    (C3_Validated(bounds) /\ DownloadInvoked) =>
        /\ download.tile_count = GridCount
        /\ grid.x_min <= grid.x_max
        /\ grid.y_min <= grid.y_max
        /\ download.tile_count >= 1
        /\ (download.why = "too_many_tiles" <=> download.tile_count > MAX_TILES)

C3_Witness ==
    /\ caller = "auto"
    /\ C3_Validated(bounds)
    /\ LatSpan(bounds) = MAX_SPAN
    /\ download.tile_count > MAX_TILES
    /\ download.why = "too_many_tiles"
    /\ result = [status |-> "error", why |-> "too_many_tiles"]

\* The box of C4: north 35.00, south 34.90, east -90.00, west -90.10.
C4_Box == [north |-> 350000, south |-> 349000, east |-> -900000, west |-> -901000]

\* C4 as stated: for that box download_reference_image computes a tile count
\* below 400 and does not raise the too-many-tiles error.
C4_Original ==
    (bounds = C4_Box /\ DownloadInvoked) =>
        /\ download.tile_count < MAX_TILES
        /\ download.why # "too_many_tiles"

\* C4 as amended: for that box download_reference_image computes a grid of
\* 38 x 45 = 1710 tiles, more than 400, and raises the too-many-tiles error
\* before any tile is requested.
C4_ExampleBox ==
    (bounds = C4_Box /\ DownloadInvoked) =>
        /\ grid.x_max - grid.x_min + 1 = 38
        /\ grid.y_max - grid.y_min + 1 = 45
        /\ download.tile_count = 1710
        /\ download.status = "ValueError"
        /\ download.why = "too_many_tiles"
        /\ requests = 0
        /\ pc = "done"

C4_Witness ==
    /\ bounds = C4_Box
    /\ caller = "direct"
    /\ result = [status |-> "raised", why |-> "too_many_tiles"]

\* C5: download_reference_image raises ValueError whenever the tile count is
\* above 400 or below 1, before any tile is requested; run_auto_georeferencing
\* returns it as an error result and does not call the matcher.
C5_TileCountError ==
    (DownloadInvoked /\ (GridCount > MAX_TILES \/ GridCount < 1)) =>
        /\ download.status = "ValueError"
        /\ download.why = (IF GridCount > MAX_TILES THEN "too_many_tiles"
                           ELSE "too_small_or_invalid")
        /\ requests = 0
        /\ k = 0
        /\ pc = "done"
        /\ (caller = "auto" => result.status = "error" /\ ~matcherCalled)
        /\ (caller = "direct" => result.status = "raised")

C5_Witness ==
    /\ caller = "direct"
    /\ GridCount < 1
    /\ download.status = "ValueError"
    /\ download.why = "too_small_or_invalid"
    /\ requests = 0

\* The backoffs before attempt number n + 1 (n sleeps): 0.5 s, then 1.0 s.
C6_Schedule(n) == SubSeq(<<50, 100>>, 1, n)

\* C6: _download_tile makes at most 3 requests for a tile.  It returns the
\* image only on a 200 response, gives up before the third request only on a
\* 404, sleeps 0.5 s and then 1.0 s between attempts and not after the last
\* one, and returns None when the 3 attempts are used up; a fetch issues at
\* most 3 * tile_count requests.
C6_BoundedRetries ==
    /\ attempt \in 0..(MAX_RETRIES - 1)
    /\ Len(backoffs) = attempt
    /\ (attempt <= 2 => backoffs = C6_Schedule(attempt))
    /\ lastTile.attempts <= 3
    /\ (k > 0 =>
          /\ lastTile.attempts >= 1
          /\ lastTile.backoffs = C6_Schedule(lastTile.attempts - 1)
          /\ (lastTile.ret = "image" <=> lastTile.resp = "ok")
          /\ (lastTile.ret = "none" =>
                lastTile.resp = "notfound" \/ lastTile.attempts = 3)
          /\ (lastTile.attempts < 3 => lastTile.resp \in {"ok", "notfound"}))
    /\ requests <= 3 * k + attempt
    /\ (DownloadInvoked /\ GridCount >= 1 => requests <= 3 * GridCount)

C6_Witness ==
    /\ lastTile.attempts = 3
    /\ lastTile.ret = "none"
    /\ lastTile.resp = "exc"
    /\ lastTile.backoffs = <<50, 100>>
    /\ requests = 3 * k
    /\ k = 5

\* C7: a tile whose request returns 404 does not increase the failure count.
C7_NotFoundIsNotAFailure ==
    [][(pc = "fetch" /\ k' = k + 1 /\ lastTile'.resp = "notfound")
          => failures' = failures]_vars

\* The loop of download_reference_image has run over a grid with tiles.
C8_LoopDone ==
    /\ pc \in {"match", "done"}
    /\ DownloadInvoked
    /\ grid.x_min <= grid.x_max
    /\ grid.y_min <= grid.y_max
    /\ GridCount \in 1..MAX_TILES

\* C8: after all tiles of the grid were attempted, download_reference_image
\* raises RuntimeError if and only if the failures are strictly more than 20%
\* of the tile count; at 20% or less it returns the mosaic with the tile
\* count and the failure count.
C8_FailureThreshold ==
    C8_LoopDone =>
        /\ k = GridCount
        /\ (download.status = "RuntimeError" <=> 5 * failures > GridCount)
        /\ (download.status = "RuntimeError" =>
               /\ download.why = "tiles_failed"
               /\ result.why = "tiles_failed"
               /\ result.status = (IF caller = "auto" THEN "error" ELSE "raised"))
        /\ (5 * failures <= GridCount =>
               /\ download.status = "returned"
               /\ download.tile_count = GridCount
               /\ download.failures = failures
               /\ download.tiles = tiles
               /\ Cardinality(tiles) = GridCount - failures)

C8_Witness ==
    /\ C8_LoopDone
    /\ GridCount = 5
    /\ failures = 1
    /\ download.status = "returned"
    /\ download.failures = 1

(***************************************************************************)
(* Properties of the classical auto_match, checked under SpecMatch.        *)
(***************************************************************************)

\* The inlier count the named pass came back with.
PassInliers(name) ==
    CASE name = "orb" -> mIn.orb[1]
      [] name = "orb_edges" -> mIn.orb_edges[1]
      [] name = "sift" -> mIn.sift[1]
      [] name = "sift_edges" -> mIn.sift_edges[1]
\* The largest inlier count over the passes that were executed.
C9_BestOfRan ==
    CHOOSE n \in {PassInliers(mOut.ran[i]) : i \in 1..Len(mOut.ran)} :
        \A i \in 1..Len(mOut.ran) : PassInliers(mOut.ran[i]) <= n

\* C9: the classical auto_match returns GCPs only when the chosen result has
\* at least 10 inliers; otherwise it returns an error whose message and
\* match_count carry the inlier count reached, which is the largest inlier
\* count over the passes executed in the call.
C9_InlierMinimum ==
    (mOut.status # "none" /\ mIn.loaded) =>
        /\ Len(mOut.ran) >= 2
        /\ mOut.match_count = C9_BestOfRan
        /\ (mOut.status = "ok" \/ mOut.gcps # <<>> => C9_BestOfRan >= MIN_INLIERS)
        /\ (C9_BestOfRan < MIN_INLIERS =>
               /\ mOut.status = "error"
               /\ mOut.why = "insufficient_matches"
               /\ mOut.found = C9_BestOfRan
               /\ mOut.gcps = <<>>)

C9_Witness ==
    /\ mIn.loaded
    /\ mIn.orb[1] = 4
    /\ mIn.orb_edges[1] = 0
    /\ mIn.sift[1] = MIN_INLIERS - 1
    /\ mIn.sift_edges[1] = 4
    /\ mOut.status = "error"
    /\ mOut.why = "insufficient_matches"
    /\ mOut.found = MIN_INLIERS - 1
    /\ mOut.match_count = MIN_INLIERS - 1

(***************************************************************************)
(* Properties of _extract_gcps, checked under SpecGcp.                     *)
(***************************************************************************)

\* Coordinate v lies in band c of the 5 bands an extent is cut into, the far
\* edge belonging to the last band.
C10_InBand(v, extent, c) ==
    IF c = GRID_SIZE - 1 THEN c * extent <= GRID_SIZE * v
    ELSE c * extent <= GRID_SIZE * v /\ GRID_SIZE * v < (c + 1) * extent
C10_InCell(p, rc) ==
    C10_InBand(p.y, GcpShape.h, rc[1]) /\ C10_InBand(p.x, GcpShape.w, rc[2])
C10_Cells == (0..(GRID_SIZE - 1)) \X (0..(GRID_SIZE - 1))
C10_Populated ==
    {rc \in C10_Cells : \E i \in 1..Len(gIn.src_pts) : C10_InCell(gIn.src_pts[i], rc)}
\* GCP g is correspondence i scaled back to the original image.
C10_From(g, i) ==
    /\ g.pixel_x * gIn.ratio.den = 10 * gIn.ratio.num * gIn.src_pts[i].x
    /\ g.pixel_y * gIn.ratio.den = 10 * gIn.ratio.num * gIn.src_pts[i].y

\* C10: _extract_gcps returns exactly one GCP per populated cell of the 5x5
\* grid: N correspondences in N distinct cells give N GCPs, N >= 1
\* correspondences in one cell give 1 GCP, and a point on the right or bottom
\* edge counts for the last column or row.
C10_OnePerCell ==
    gOut.done =>
        /\ Len(gOut.gcps) = Cardinality(C10_Populated)
        /\ \A rc \in C10_Populated :
              Cardinality({j \in 1..Len(gOut.gcps) :
                  \E i \in 1..Len(gIn.src_pts) :
                      C10_InCell(gIn.src_pts[i], rc) /\ C10_From(gOut.gcps[j], i)}) = 1
        /\ ((\A i, j \in 1..Len(gIn.src_pts) :
                i # j => \A rc \in C10_Cells :
                    ~(C10_InCell(gIn.src_pts[i], rc) /\ C10_InCell(gIn.src_pts[j], rc)))
               => Len(gOut.gcps) = Len(gIn.src_pts))
        /\ (Len(gIn.src_pts) >= 1 /\ Cardinality(C10_Populated) = 1 => Len(gOut.gcps) = 1)

C10_Witness ==
    /\ gOut.done
    /\ Len(gIn.src_pts) = MaxPts
    /\ \E i \in 1..Len(gIn.src_pts) : gIn.src_pts[i] = [x |-> 50, y |-> 100]
    /\ \E i \in 1..Len(gIn.src_pts) : gIn.src_pts[i] = [x |-> 49, y |-> 99]
    /\ Cardinality(C10_Populated) = 1
    /\ Len(gOut.gcps) = 1

(***************************************************************************)
(* Properties of the two auto_match functions, checked under SpecMatchers. *)
(***************************************************************************)

\* The cell of the 5x5 grid over the source image of size (width, height)
\* that a GCP lies in.
C11_Cell(g, size) ==
    <<Min((g.pixel_y * GRID_SIZE) \div (10 * size[2]), GRID_SIZE - 1),
      Min((g.pixel_x * GRID_SIZE) \div (10 * size[1]), GRID_SIZE - 1)>>
C11_OnePerCell(gcps, size) ==
    /\ Len(gcps) <= GRID_SIZE * GRID_SIZE
    /\ \A i, j \in 1..Len(gcps) : i # j => C11_Cell(gcps[i], size) # C11_Cell(gcps[j], size)

\* C11: every GCP list an auto_match returns on success, the classical one or
\* the vision one that run_auto_georeferencing is wired to, holds at most 25
\* GCPs and at most one GCP per cell of the 5x5 grid over the source image.
C11_GridBounded ==
    /\ (mOut.status = "ok" => C11_OnePerCell(mOut.gcps, mIn.size))
    /\ (vOut.status = "ok" => C11_OnePerCell(vOut.gcps, vIn.size))

\* The cells populated by the inliers of the result the classical auto_match
\* keeps.
C12_Shape == [h |-> LoadTiff(mIn.size[1], mIn.size[2]).h, w |-> LoadTiff(mIn.size[1], mIn.size[2]).w]
C12_Kept == RunPasses(mIn, C12_Shape).res
C12_Populated ==
    {<<Min((C12_Kept.src_inlier_pts[i].y * GRID_SIZE) \div C12_Shape.h, GRID_SIZE - 1),
       Min((C12_Kept.src_inlier_pts[i].x * GRID_SIZE) \div C12_Shape.w, GRID_SIZE - 1)>> :
         i \in 1..Len(C12_Kept.src_inlier_pts)}
\* The matches of the parsed response that pass the filters of the vision
\* auto_match: not of the tier 'low', inside both images.
C15_Passing ==
    {i \in 1..Len(vIn.kinds) :
        vIn.kinds[i][1] # "low" /\ vIn.kinds[i][2] \in {"spread", "edge"}}

\* C12: at least 5 GCPs are required.  The classical auto_match (the inlier
\* minimum met) with fewer than 5 populated grid cells, and the vision
\* auto_match (the response parsed to at least one match) with fewer than 5
\* matches that survive the filters, return an error that names the number
\* found and no gcps; with 5 or more they return the list of that many GCPs.
\* No call returns a list of fewer than 5 GCPs, and no error carries gcps.
C12_MinimumGcps ==
    /\ (mOut.status = "ok" => Len(mOut.gcps) >= 5)
    /\ (vOut.status = "ok" => Len(vOut.gcps) >= 5)
    /\ (mOut.status = "error" => mOut.gcps = <<>>)
    /\ (vOut.status = "error" => vOut.gcps = <<>>)
    /\ (mOut.status # "none" /\ mIn.loaded /\ C12_Kept.inlier_count >= MIN_INLIERS) =>
          IF Cardinality(C12_Populated) < 5
          THEN /\ mOut.status = "error"
               /\ mOut.why = "too_few_gcps"
               /\ mOut.found = Cardinality(C12_Populated)
               /\ mOut.gcps = <<>>
          ELSE /\ mOut.status = "ok"
               /\ Len(mOut.gcps) = Cardinality(C12_Populated)
    /\ (vOut.status # "none" /\ vIn.stage = "parsed" /\ vIn.kinds # <<>>) =>
          IF Cardinality(C15_Passing) < 5
          THEN /\ vOut.status = "error"
               /\ vOut.why = "too_few_gcps"
               /\ vOut.found = Cardinality(C15_Passing)
               /\ vOut.gcps = <<>>
          ELSE /\ vOut.status = "ok"
               /\ Len(vOut.gcps) = Cardinality(C15_Passing)

C12_Witness ==
    /\ vIn.stage = "parsed"
    /\ Len(vIn.kinds) = MaxMatches
    /\ Cardinality(C15_Passing) = 4
    /\ vOut.status = "error"
    /\ vOut.why = "too_few_gcps"
    /\ vOut.found = 4

C13_Within(gcps, size) ==
    \A i \in 1..Len(gcps) :
        /\ 0 <= gcps[i].pixel_x /\ gcps[i].pixel_x <= 10 * size[1]
        /\ 0 <= gcps[i].pixel_y /\ gcps[i].pixel_y <= 10 * size[2]

\* C13: every GCP an auto_match returns has pixel_x in [0, W] and pixel_y in
\* [0, H] for the W x H original source raster, also when the source was
\* downsampled and the coordinates were scaled back by the downsample ratio
\* and rounded to one decimal.
C13_PixelsWithinSource ==
    /\ (mOut.status = "ok" => C13_Within(mOut.gcps, mIn.size))
    /\ (vOut.status = "ok" => C13_Within(vOut.gcps, vIn.size))

C13_Witness ==
    /\ vOut.status = "ok"
    /\ vIn.size = <<8000, 6003>>
    /\ \E i \in 1..Len(vOut.gcps) :
          vOut.gcps[i].pixel_x = 80000 /\ vOut.gcps[i].pixel_y = 60000

\* Match number j (from 1) among those that pass the filters.
C15_KeptIndex(j) ==
    CHOOSE i \in C15_Passing : Cardinality({p \in C15_Passing : p <= i}) = j
C15_Aerial == PrepareAerial(vIn.size[1], vIn.size[2])

\* C15: the vision auto_match returns no GCP for a match of the tier 'low' or
\* with source or reference coordinates outside the (downsampled) image, and
\* exactly one GCP, in order, for every other match of the parsed response;
\* match_count is the number of matches that pass both filters.
C15_FilteredMatches ==
    (vOut.status # "none" /\ vIn.stage = "parsed" /\ vIn.kinds # <<>>) =>
        /\ vOut.match_count = Cardinality(C15_Passing)
        /\ (vOut.status = "ok" =>
              /\ Len(vOut.gcps) = Cardinality(C15_Passing)
              /\ \A j \in 1..Len(vOut.gcps) :
                    LET i == C15_KeptIndex(j)
                        m == VisionMatch(vIn.kinds[i], i, C15_Aerial,
                                         PrepareReference(RefSize[1], RefSize[2]))
                    IN  /\ vOut.gcps[j].pixel_x * C15_Aerial.den
                             = 10 * m.aerial_x * C15_Aerial.num
                        /\ vOut.gcps[j].pixel_y * C15_Aerial.den
                             = 10 * m.aerial_y * C15_Aerial.num)

C15_Witness ==
    /\ vOut.status = "ok"
    /\ Len(vIn.kinds) = MaxMatches
    /\ \E i \in 1..Len(vIn.kinds) : vIn.kinds[i][1] = "low"
    /\ vOut.match_count = MaxMatches - 1
    /\ Len(vOut.gcps) = MaxMatches - 1

(***************************************************************************)
(* Properties of the _compute_confidence functions, checked under SpecConf.*)
(***************************************************************************)

\* C14: the score of both _compute_confidence functions lies in [0, 1] for
\* any inlier count, any total match count including 0, any list of
\* distances including the empty one and distances above 200, any number of
\* GCPs or matches, any confidence tiers, and any self-reported confidence,
\* below 0 and above 1 included.
C14_ConfidenceInUnitInterval ==
    cOut.done => (0 <= cOut.num /\ cOut.num <= cOut.den)

C14_Witness ==
    /\ cOut.done
    /\ cIn.fn = "vision"
    /\ cIn.claude_confidence = 500
    /\ Len(cIn.matches) = MaxConfMatches
    /\ \A i \in 1..Len(cIn.matches) : cIn.matches[i].confidence = "high"
    /\ cOut.num > 0

(***************************************************************************)
(* Properties of run_georeferencing and of the /api/georeference handler,  *)
(* checked under SpecGeoref.                                               *)
(***************************************************************************)

\* C16: run_georeferencing called with fewer than 5 GCPs returns the error of
\* the 5-GCP minimum at once: it fits no transform, opens no image, writes no
\* output raster and no bounds sidecar.  The handler of /api/georeference
\* answers such a request with an error and does not call run_georeferencing.
C16_MinimumBeforeWork ==
    (gq.via # "none" /\ Len(GcpsOf(gq)) < 5) =>
        /\ glog = <<>>
        /\ gfit = NoGeoFit
        /\ gdisk = NoGeoDisk
        /\ gpc \in {"run", "done"}
        /\ (gpc = "done" => gres.status = "error")
        /\ (gq.via = "direct" /\ gpc = "done" => gres.why = "min_gcps")
        /\ (gq.via = "api" => gpc = "done" /\ gres.http = 400)

C16_Witness ==
    /\ gq.via = "direct"
    /\ Len(GcpsOf(gq)) = 4
    /\ gq.file = "ok"
    /\ gpc = "done"
    /\ gres.status = "error"
    /\ gres.why = "min_gcps"

\* C17: when the pixel positions of the GCPs are collinear (or all the same),
\* _compute_affine returns None and run_georeferencing returns an error
\* instead of a transform, bounds and an output raster.
C17_SingularSystemFails ==
    (gq.via # "none" /\ Len(GcpsOf(gq)) >= 5 /\ Collinear(GcpsOf(gq))) =>
        /\ gfit.affine = NoAffine
        /\ gdisk.raster = NoRaster
        /\ (gpc = "done" => gres.status = "error")

\* The transform the GCPs of the request were generated from.
C18_Generating == GeoTransforms[gq.gcps.transform]

\* C18: for GCPs that are not collinear and whose (lon, lat) come from a
\* known affine transform of their pixel positions, the 4 corners and the
\* center of the 1000 x 800 raster among them, _compute_affine returns the
\* coefficients of that transform, and _compute_residuals reports an error of
\* 0 for every GCP and an rms of 0.
C18_ExactFit ==
    (gq.via # "none" /\ ~gq.gcps.noise /\ ~Collinear(GcpsOf(gq)) /\ glog # <<>>) =>
        /\ gfit.affine.den = 1
        /\ gfit.affine.lon_coeffs = C18_Generating.lon_coeffs
        /\ gfit.affine.lat_coeffs = C18_Generating.lat_coeffs
        /\ (gres.status = "success" =>
              /\ gres.residuals.rms_zero
              /\ Len(gres.residuals.per_point) = Len(GcpsOf(gq))
              /\ \A i \in 1..Len(gres.residuals.per_point) :
                    /\ gres.residuals.per_point[i].off_lon = 0
                    /\ gres.residuals.per_point[i].off_lat = 0)

C18_Witness ==
    /\ gq.gcps = [layout |-> "corners5", transform |-> "rotated", noise |-> FALSE]
    /\ gres.status = "success"
    /\ gfit.affine.lon_coeffs = <<3, 2, 1>>
    /\ gfit.affine.lat_coeffs = <<40, 1, -2>>
    /\ gres.residuals.rms_zero

\* The determinant of the block [[a1, a2], [b1, b2]] of the fitted transform
\* (times the square of the denominator).
C20_Det ==
    gfit.affine.lon_coeffs[2] * gfit.affine.lat_coeffs[3]
      - gfit.affine.lon_coeffs[3] * gfit.affine.lat_coeffs[2]

\* C20: if the block [[a1, a2], [b1, b2]] of the transform is singular,
\* _warp_image writes the unwarped source raster to the output path and
\* returns, and run_georeferencing then writes the bounds sidecar and returns
\* a success result.
C20_SingularBlockPassesThrough ==
    (gpc \in {"sidecar", "done"} /\ gdisk.raster # NoRaster /\ C20_Det = 0) =>
        /\ gdisk.raster.kind = "source"
        /\ (gpc = "done" => gres.status = "success" /\ gdisk.sidecar = <<gfit.bounds>>)

(***************************************************************************)
(* Properties of the output size of _warp_image, checked under SpecDim.    *)
(***************************************************************************)

\* C19: the output size _warp_image computes satisfies 100 <= out_w <= 8000
\* and 100 <= out_h <= 8000 for every transform and every bounds, a span of 0
\* and a zero first column of the transform (the pixel size replaced by the
\* guard value) included.
C19_OutputSizeClamped ==
    dOut.done =>
        /\ 100 <= dOut.out_w /\ dOut.out_w <= 8000
        /\ 100 <= dOut.out_h /\ dOut.out_h <= 8000

C19_Witness ==
    /\ dOut.done
    /\ dIn.col = <<0, 0>>
    /\ dIn.lon_span = 0
    /\ dIn.lat_span = 3
    /\ dOut.out_w = 100
    /\ dOut.out_h = 8000


(***************************************************************************)
(* Properties of _extract_gcps and of the classical auto_match, continued  *)
(* (SpecGcp, SpecMatch).                                                   *)
(***************************************************************************)

\* The correspondences of the call that lie in cell rc, and the one of them
\* that is the best: the first in input order of those with the lowest
\* distance, a missing distance counting as infinite.
C26_InCell(rc) == {i \in 1..Len(gIn.src_pts) : C10_InCell(gIn.src_pts[i], rc)}
C26_Dist(i) == IF i <= Len(gIn.distances) THEN gIn.distances[i] ELSE Inf
C26_Best(rc) ==
    CHOOSE i \in C26_InCell(rc) :
        \A j \in C26_InCell(rc) :
            C26_Dist(i) < C26_Dist(j) \/ (C26_Dist(i) = C26_Dist(j) /\ i <= j)
C26_GcpOf(i) ==
    [pixel_x |-> RoundDiv(10 * gIn.src_pts[i].x * gIn.ratio.num, gIn.ratio.den),
     pixel_y |-> RoundDiv(10 * gIn.src_pts[i].y * gIn.ratio.num, gIn.ratio.den),
     lat |-> GeoTransform.origin_lat + GcpDst(gIn.src_pts)[i].y * GeoTransform.px_size_lat,
     lon |-> GeoTransform.origin_lon + GcpDst(gIn.src_pts)[i].x * GeoTransform.px_size_lon]

\* C26: the GCPs _extract_gcps returns are, for each populated cell, the GCP
\* of the correspondence with the lowest descriptor distance in the cell, the
\* first in input order among several of the lowest distance, a
\* correspondence without a distance entry counting as infinitely far.
C26_LowestDistancePerCell ==
    gOut.done =>
        {gOut.gcps[j] : j \in 1..Len(gOut.gcps)}
            = {C26_GcpOf(C26_Best(rc)) : rc \in C10_Populated}

C26_Witness ==
    /\ gOut.done
    /\ Len(gIn.src_pts) = 3
    /\ Len(gIn.distances) = 2
    /\ gIn.distances[1] = gIn.distances[2]
    /\ Cardinality(C10_Populated) = 1
    /\ gIn.src_pts[1] # gIn.src_pts[2]
    /\ gOut.gcps = <<C26_GcpOf(1)>>


\* The output of a pass by its name, and the pass whose result the call
\* keeps: the first, in the order of execution, of the passes executed that
\* reach the largest inlier count.
C27_Output(name) ==
    CASE name = "orb" -> mIn.orb
      [] name = "orb_edges" -> mIn.orb_edges
      [] name = "sift" -> mIn.sift
      [] name = "sift_edges" -> mIn.sift_edges
C27_KeptPass ==
    mOut.ran[CHOOSE i \in 1..Len(mOut.ran) :
                /\ \A j \in 1..Len(mOut.ran) :
                      C27_Output(mOut.ran[j])[1] <= C27_Output(mOut.ran[i])[1]
                /\ \A j \in 1..(i - 1) :
                      C27_Output(mOut.ran[j])[1] < C27_Output(mOut.ran[i])[1]]
C27_KeptGcps ==
    LET img == LoadTiff(mIn.size[1], mIn.size[2])
        shape == [h |-> img.h, w |-> img.w]
        r == PassResult(C27_Output(C27_KeptPass), shape)
    IN  ExtractGcps(r.src_inlier_pts, r.dst_inlier_pts, r.inlier_distances, shape,
                    [num |-> img.num, den |-> img.den], GeoTransform)

\* C27: the classical auto_match executes the two SIFT passes exactly when
\* the better of the two ORB passes has fewer than 10 inliers, and executes
\* the two ORB passes alone otherwise; a later pass replaces the result only
\* with strictly more inliers, so the GCPs come from the first pass of the
\* largest inlier count.
C27_FallbackIffBelowMinimum ==
    (mOut.status # "none" /\ mIn.loaded) =>
        /\ IF mIn.orb[1] < 10 /\ mIn.orb_edges[1] < 10
           THEN mOut.ran = <<"orb", "orb_edges", "sift", "sift_edges">>
           ELSE mOut.ran = <<"orb", "orb_edges">>
        /\ mOut.match_count = C27_Output(C27_KeptPass)[1]
        /\ (mOut.status = "ok" => mOut.gcps = C27_KeptGcps)
        /\ (mOut.why = "too_few_gcps" => mOut.found = Len(C27_KeptGcps))

C27_Witness ==
    /\ mOut.status = "ok"
    /\ mIn.orb = <<MIN_INLIERS - 1, "spread">>
    /\ mIn.orb_edges = <<4, "cluster">>
    /\ mIn.sift = <<MIN_INLIERS, "spread">>
    /\ mIn.sift_edges = <<MIN_INLIERS, "cluster">>
    /\ mOut.ran = <<"orb", "orb_edges", "sift", "sift_edges">>
    /\ Len(mOut.gcps) = MIN_INLIERS


(***************************************************************************)
(* Properties of the vision _compute_confidence, continued (SpecConf).     *)
(***************************************************************************)

RECURSIVE C28_Sum(_)
C28_Sum(s) == IF s = <<>> THEN 0 ELSE Head(s) + C28_Sum(Tail(s))
\* The quadrants around the centroid (the mean of the aerial coordinates)
\* that hold a match: x is below the mean of n values when n * x is below
\* their sum.
C28_CentroidQuadrants ==
    LET n == Len(cIn.matches)
        sx == C28_Sum([i \in 1..n |-> cIn.matches[i].aerial_x])
        sy == C28_Sum([i \in 1..n |-> cIn.matches[i].aerial_y])
    IN  {<<IF n * cIn.matches[i].aerial_x < sx THEN 0 ELSE 1,
           IF n * cIn.matches[i].aerial_y < sy THEN 0 ELSE 1>> : i \in 1..n}
\* The score without its spatial-distribution term, over the denominator
\* 6000 n of the score.
C28_OtherTerms ==
    LET n == Len(cIn.matches)
        high == Cardinality({i \in 1..n : cIn.matches[i].confidence = "high"})
        med == Cardinality({i \in 1..n : cIn.matches[i].confidence = "medium"})
    IN  125 * n * Min(n, 12) + 600 * (2 * high + med)
          + 18 * n * Max(0, Min(100, cIn.claude_confidence))

\* C28: the spatial-distribution term of the vision confidence is 0.25 times
\* the fraction of the 4 quadrants around the centroid of the matches (the
\* mean of their aerial x and y) that hold at least one match.
C28_QuadrantsAroundCentroid ==
    (cOut.done /\ cIn.fn = "vision" /\ cIn.matches # <<>>) =>
        /\ cOut.den = 6000 * Len(cIn.matches)
        /\ cOut.num - C28_OtherTerms
             = 375 * Len(cIn.matches) * Cardinality(C28_CentroidQuadrants)

(***************************************************************************)
(* Properties of _compute_bounds and _warp_image on the transform          *)
(* (a0 + px, b0 - py), checked under SpecWarp.                             *)
(***************************************************************************)

\* C21: resampling a W x H source with a1 = 1, a2 = 0, b1 = 0, b2 = -1, any
\* offsets a0 and b0, and the bounds of _compute_bounds reproduces the source:
\* the output is W x H and output pixel (ox, oy) samples source pixel
\* (ox, oy), for every source size.
C21_IdentityReproducesSource ==
    wOut.done =>
        /\ wOut.out_w = wIn.w
        /\ wOut.out_h = wIn.h
        /\ \A p \in DOMAIN wOut.map :
              /\ wOut.map[p].x_num = p[1] * wOut.map[p].x_den
              /\ wOut.map[p].y_num = p[2] * wOut.map[p].y_den

(***************************************************************************)
(* Properties of the network calls, checked under SpecNet.                 *)
(***************************************************************************)

\* A call is made with a timeout of its own or on a client built with one.
C25_ExplicitTimeout(call) == "timeout" \in call.args \cup call.client

\* C25: every network call, the tile request of _download_tile and the vision
\* request of _call_claude_vision, is made with an explicit timeout, and a
\* failure is surfaced after a bounded number of calls.
C25_TimeoutAndBoundedRetries ==
    /\ \A i \in 1..Len(nCalls) : C25_ExplicitTimeout(nCalls[i])
    /\ Len(nCalls) <= MAX_RETRIES

(***************************************************************************)
(* Properties of the handlers of app.py, checked under SpecApp.            *)
(***************************************************************************)

\* C23: at most one georeferencing is in flight per image id: two requests
\* to /api/georeference for the same image id are never both inside
\* run_georeferencing.
C23_OneRunInFlight ==
    \A c1, c2 \in Clients :
        aReq[c1].pc # "idle" /\ aReq[c2].pc # "idle" => c1 = c2

\* C29: the preview that preview_overlay serves is rendered from the output
\* raster of the most recent successful georeferencing of the image id; the
\* previews served while a run was under way are left aside.
C29_PreviewOfLatestRun ==
    aServed.status \in {"jpeg", "png"} /\ ~aServed.busy =>
        aServed.from = aServed.last

\* C30: a run of run_georeferencing that returns an error has written neither
\* an output raster nor a bounds sidecar, and an export that finds the raster
\* finds the bounds of the same run; the exports made while a run was under
\* way are left aside.
C30_ErrorLeavesDiskUnchanged ==
    /\ \A c \in Clients : aReq[c].result = "error" => aReq[c].wrote = {}
    /\ aExported.status \in {"kmz", "no_bounds"} /\ ~aExported.busy =>
          /\ aExported.status = "kmz"
          /\ aExported.raster = aExported.bounds

(***************************************************************************)
(* Properties of run_georeferencing, continued (SpecGeoref).               *)
(***************************************************************************)

\* A file on disk carries the coefficients of the fitted transform.
C22_CarriesTransform(f) ==
    /\ {"lon_coeffs", "lat_coeffs"} \subseteq DOMAIN f
    /\ f.lon_coeffs = gfit.affine.lon_coeffs
    /\ f.lat_coeffs = gfit.affine.lat_coeffs

\* C22: after run_georeferencing returns success, the fitted transform (lon
\* and lat coefficients) and the bounds it returned are both persisted with
\* the image, where a later export reads them back.
C22_TransformAndBoundsPersisted ==
    gres.status = "success" =>
        /\ gdisk.sidecar = <<gres.bounds>>
        /\ \/ C22_CarriesTransform(gdisk.raster)
           \/ \E i \in 1..Len(gdisk.sidecar) : C22_CarriesTransform(gdisk.sidecar[i])

\* C24: run_georeferencing returns a dict that carries success or an error
\* for any input, a null or malformed GCP list included, and for any failure
\* of the image loading; no exception reaches its caller.
C24_AlwaysStructuredResult ==
    gq.via = "direct" /\ gpc = "done" => gres.status \in {"success", "error"}

=============================================================================
